---------------------------- MODULE Spec2Model ----------------------------
(***************************************************************************)
(* Sticker layer (v2 peel redesign): the peel controller state machine and *)
(* its fixed-step spring, the grab zone tracker, the crack generator and   *)
(* the tear bookkeeping of the sticker layer.                              *)
(*                                                                         *)
(* Numbers.  UV coordinates, peelProgress, peelVelocity, peelTarget and    *)
(* the torn fraction are JavaScript doubles in the source.  They are kept  *)
(* here in fixed point, UNIT = 1.0, every product rounded to the nearest   *)
(* unit (RDiv).  Pixel distances are kept in tenths of a pixel, the torn   *)
(* fraction in units in which the area estimate is exact.  The frame times *)
(* of update() keep their floating-point rounding (Fl).                    *)
(***************************************************************************)
EXTENDS Integers, Sequences, FiniteSets, TLC

(* ------------------------- number representation ---------------------- *)
\* fixed-point resolution of the doubles: UNIT units = 1.0
UNIT == 10000
\* sub-pixel resolution of the pixel distances of nearest()
PXUNIT == 10
\* The frame times (dt, _accum, FIXED_DT) are doubles whose sums are compared
\* for order with FIXED_DT, so their rounding is kept: they are floating-point
\* numbers of FLOAT_BITS significant bits (a double has 53), counted in TICKs
\* of 1/65536 s, every sum and difference rounded to nearest, ties to even.
TICKS_PER_SECOND == 65536
FLOAT_BITS == 8

\* the spacing of the floating-point numbers around x >= 0
RECURSIVE Quantum(_)
Quantum(x) == IF x < 2 ^ FLOAT_BITS THEN 1 ELSE 2 * Quantum(x \div 2)

\* x >= 0 rounded to the nearest floating-point number, ties to even
Fl(x) ==
    LET q    == Quantum(x)
        down == (x \div q) * q
        r    == x - down
    IN IF 2 * r < q THEN down
       ELSE IF 2 * r > q THEN down + q
       ELSE IF (down \div q) % 2 = 0 THEN down ELSE down + q

(* ------------------------------ bounds --------------------------------- *)
\* completed tears (snap-offs) in one session
MaxTears == 2
\* pointer moves delivered to the controller while one peel gesture is held
MaxDrags == 1
\* fixed steps run while one peel gesture is held
MaxPeelSteps == 3
\* SNAP_OFF delay timers pending at the same time
MaxTimers == 2
\* further tears once the torn fraction has reached CLEARED_THRESHOLD
MaxClearedTears == 1
\* texels along one side of tearMaskRT
MaskSize == 4
\* fillPolygon calls made on one mask
MaxFills == 3
\* cracks generated in one run of the crack generator
MaxCracks == 2
\* nodes along the sides of the constraint lattice (LATTICE_W and LATTICE_H
\* are 70 in STICKER_PARAMS)
LatticeW == 3
LatticeH == 2
\* elements of the stand-alone UnionFind
UFSize == 4
\* distinct pairs united in one run of the UnionFind
MaxUnions == 4
\* pointer-downs, pointer moves and fixed steps of one run of the sticker.js
\* controller, and entries pushed on its tear queue from outside
MaxClicks == 4
MaxStickerMoves == 2
MaxStickerSteps == 6
MaxQueuedTears == 1
\* 600 ms timeouts armed and not yet run
MaxTimeouts == 2
\* constraints broken in one run of the tear system
MaxBroken == 3
\* constraints of the lattice that break while the frame loop runs
MaxLoopBroken == 1

(* --------------------------- program constants ------------------------- *)
SPRING_K == 18
\* SPRING_DAMP = 0.72, in hundredths
SPRING_DAMP_PCT == 72
\* FIXED_DT = 1/60 s: steps per second
FIXED_HZ == 60
\* SNAP_THRESHOLD = 0.35
SNAP_THRESHOLD == 3500
\* CRACK_STEP_SIZE = 0.015
CRACK_STEP_SIZE == 150
\* TEAR_JAGGEDNESS = 0.45, in hundredths
TEAR_JAGGEDNESS_PCT == 45
GRAB_SNAP_PX == 12
\* direction dead-zone of a drag, 0.03 UV units
DEAD_ZONE == (3 * UNIT) \div 100
\* settle thresholds of SNAP_BACK: |progress| < 0.005, |velocity| < 0.002
SETTLE_PROGRESS == (5 * UNIT) \div 1000
SETTLE_VELOCITY == (2 * UNIT) \div 1000
\* the torn fraction is kept in units of 1 / (2 * UNIT * UNIT), in which half
\* the product of two UV lengths is exact
FRACTION_ONE == 2 * UNIT * UNIT
\* torn fraction at which onCleared fires, 0.98
CLEARED_THRESHOLD == (FRACTION_ONE \div 100) * 98
\* FIXED_DT = 1/60 s, the nearest floating-point number, in TICKs
FIXED_DT == Fl(TICKS_PER_SECOND \div FIXED_HZ)
\* the frame delta is capped at 0.05 s: Math.min(raw, 0.05)
MAX_FRAME_DT == Fl(TICKS_PER_SECOND \div 20)
\* window.innerWidth and window.innerHeight, the simulation's default
innerWidth == 1920
innerHeight == 1080

(* ------------------------------ arithmetic ----------------------------- *)
Abs(a) == IF a >= 0 THEN a ELSE -a
Max2(a, b) == IF a >= b THEN a ELSE b
Min2(a, b) == IF a <= b THEN a ELSE b
\* a / b rounded to the nearest integer (b > 0), ties away from zero
RDiv(a, b) == IF a >= 0 THEN (2 * a + b) \div (2 * b)
              ELSE -((2 * (-a) + b) \div (2 * b))
\* ceil(a / b) for a >= 0, b > 0
CeilDiv(a, b) == (a + b - 1) \div b

RECURSIVE SqrtSearch(_, _, _)
SqrtSearch(n, lo, hi) ==
    IF lo >= hi THEN lo
    ELSE LET mid == (lo + hi + 1) \div 2
         IN IF mid * mid <= n THEN SqrtSearch(n, mid, hi)
            ELSE SqrtSearch(n, lo, mid - 1)
\* Math.sqrt, rounded to the nearest unit
ISqrt(n) == LET f == SqrtSearch(n, 0, 46340)
            IN IF n - f * f > f THEN f + 1 ELSE f

Null == [null |-> TRUE]
UV(x, y) == [x |-> x, y |-> y]


(* ------------------------------ state ---------------------------------- *)
VARIABLES
    ctrl,          \* StickerController: state, peelProgress, peelVelocity,
                   \*   peelTarget, grabUV, grabNormal, peelDir, hoverZone
    timers,        \* setTimeout(…, 350) callbacks armed by snap-offs, not yet run
    zones,         \* GrabZoneTracker.zones
    tornFraction,  \* StickerLayer._tornFraction, FRACTION_ONE = 1.0
    tearMask,      \* polygons filled into MaskPainter.tearMaskRT since it was cleared
    fired,         \* callbacks fired by the last operation, in order
    last,          \* the last operation
    snapOffCalls,  \* onSnapOff calls of the session
    drags,         \* pointer moves delivered in the current peel gesture
    steps,         \* fixed steps run since PEELING / SNAP_BACK was entered
    viewport,      \* window.innerWidth and window.innerHeight, in pixels
    accum,         \* StickerController._accum, in TICKs
    probe,         \* the last direct call of a component's method and its result
    controller,    \* sticker.js: StickerLayer._controller
    timeouts,      \* sticker.js: the 200 ms and 600 ms callbacks not yet run, and
                   \*   how many of the latter were armed before the current grab
    clicks,        \* pointer-downs delivered to the sticker.js controller
    queued,        \* every entry pushed on the pending queues, in order
    returned,      \* every entry returned by a flush, in order
    tearSystem,    \* sticker.js: StickerLayer._tearSystem
    uf,            \* sticker.js: a UnionFind of UFSize elements
    united,        \* the pairs united in uf so far
    cursor,        \* _canvas.style.cursor as onHoverChange last set it
    tearTimer      \* sticker.js: StickerLayer._tearTimer, in TICKs

\* the objects of sticker.js and their history
sticker == <<controller, timeouts, clicks, queued, returned, tearSystem, uf, united,
             tearTimer>>

vars == <<ctrl, timers, zones, tornFraction, tearMask, fired, last,
          snapOffCalls, drags, steps, viewport, accum, probe, sticker, cursor>>

\* what no action of the pointer, the timers or the fixed step touches
frame == <<viewport, accum, probe, sticker, cursor>>

States == {"IDLE", "HOVER", "PEELING", "SNAP_BACK", "SNAP_OFF"}

(* --------------------------- Peel Controller --------------------------- *)
\* new StickerController(params)
newController ==
    [state        |-> "IDLE",
     peelProgress |-> 0,
     peelVelocity |-> 0,
     peelTarget   |-> 0,
     grabUV       |-> UV(0, 0),
     grabNormal   |-> UV(UNIT, 0),
     peelDir      |-> UV(UNIT, 0),
     hoverZone    |-> Null]

\* state after setHover(zone); zone is Null or [point, normal]
setHoverNext(zone) == IF zone = Null THEN "IDLE" ELSE "HOVER"

\* a setHover that notifies on every call it accepts
hoverChangeFiresAlways(c, zone) == c.state \in {"IDLE", "HOVER"}

\* setHover calls onHoverChange(zone)
hoverChangeFires(c, zone) ==
    /\ c.state \in {"IDLE", "HOVER"}
    /\ setHoverNext(zone) # c.state

\* a setHover that forgets the guard on the state
setHoverAnyState(c, zone) ==
    LET c1 == [c EXCEPT !.state = setHoverNext(zone), !.hoverZone = zone]
    IN IF zone = Null THEN c1
       ELSE [c1 EXCEPT !.grabUV     = UV(zone.point.x, zone.point.y),
                       !.grabNormal = UV(zone.normal.x, zone.normal.y),
                       !.peelDir    = UV(zone.normal.x, zone.normal.y)]

\* StickerController.prototype.setHover: the controller's fields
setHover(c, zone) ==
    IF c.state # "IDLE" /\ c.state # "HOVER" THEN c
    ELSE LET c1 == [c EXCEPT !.state = setHoverNext(zone), !.hoverZone = zone]
         IN IF zone = Null THEN c1
            ELSE [c1 EXCEPT !.grabUV     = UV(zone.point.x, zone.point.y),
                            !.grabNormal = UV(zone.normal.x, zone.normal.y),
                            !.peelDir    = UV(zone.normal.x, zone.normal.y)]

\* a pointer-down that forgets the HOVER guard
onPointerDownAnyState(c) ==
    [c EXCEPT !.state = "PEELING", !.peelProgress = 0,
              !.peelVelocity = 0, !.peelTarget = 0]

\* a pointer-down that leaves peelTarget as the last gesture left it
onPointerDownKeepsTarget(c) ==
    IF c.state # "HOVER" THEN c
    ELSE [c EXCEPT !.state = "PEELING", !.peelProgress = 0, !.peelVelocity = 0]

\* onPointerDown past the filter on e.target (startPeel)
onPointerDown(c) ==
    IF c.state # "HOVER" THEN c
    ELSE [c EXCEPT !.state = "PEELING", !.peelProgress = 0,
                   !.peelVelocity = 0, !.peelTarget = 0]

\* an onPointerMove whose dead-zone test is dist >= 0.03
onPointerMoveClosedDeadZone(c, uv) ==
    IF c.state # "PEELING" THEN c
    ELSE LET dx   == uv.x - c.grabUV.x
             dy   == uv.y - c.grabUV.y
             dist == ISqrt(dx * dx + dy * dy)
             c1   == [c EXCEPT !.peelTarget = Min2(UNIT, RDiv(dist * 22, 10))]
         IN IF dx * dx + dy * dy >= DEAD_ZONE * DEAD_ZONE
            THEN [c1 EXCEPT !.peelDir = UV(RDiv(dx * UNIT, dist), RDiv(dy * UNIT, dist))]
            ELSE c1

\* onPointerMove past the filter on e.target (updatePeelTarget)
onPointerMove(c, uv) ==
    IF c.state # "PEELING" THEN c
    ELSE LET dx   == uv.x - c.grabUV.x
             dy   == uv.y - c.grabUV.y
             dist == ISqrt(dx * dx + dy * dy)
             c1   == [c EXCEPT !.peelTarget = Min2(UNIT, RDiv(dist * 22, 10))]
         IN \* dist > 0.03
            IF dx * dx + dy * dy > DEAD_ZONE * DEAD_ZONE
            THEN [c1 EXCEPT !.peelDir = UV(RDiv(dx * UNIT, dist), RDiv(dy * UNIT, dist))]
            ELSE c1

peelFrontUV(c) ==
    UV(c.grabUV.x + RDiv(c.peelDir.x * c.peelProgress, UNIT),
       c.grabUV.y + RDiv(c.peelDir.y * c.peelProgress, UNIT))

\* a release that calls onSnapOff whatever the progress
snapsOffNoThreshold(c) == c.state = "PEELING"

\* onPointerUp past the filter takes the SNAP_OFF branch
snapsOff(c) == c.state = "PEELING" /\ c.peelProgress >= SNAP_THRESHOLD

\* a release that forgets the threshold
onPointerUpNoThreshold(c) ==
    IF c.state # "PEELING" THEN c ELSE [c EXCEPT !.state = "SNAP_OFF"]

\* onPointerUp past the filter on e.target (release): the controller's fields
onPointerUp(c) ==
    IF c.state # "PEELING" THEN c
    ELSE IF c.peelProgress >= SNAP_THRESHOLD
         THEN [c EXCEPT !.state = "SNAP_OFF"]
         ELSE [c EXCEPT !.state = "SNAP_BACK", !.peelTarget = 0]

\* a timeout callback that tests for the wrong state
snapOffTimeoutWrongState(c) ==
    IF c.state = "PEELING"
    THEN [c EXCEPT !.state = "IDLE", !.peelProgress = 0, !.peelVelocity = 0]
    ELSE c

\* a timeout callback that forgets to test the state
snapOffTimeoutAnyState(c) ==
    [c EXCEPT !.state = "IDLE", !.peelProgress = 0, !.peelVelocity = 0]

\* the setTimeout callback of onPointerUp
snapOffTimeout(c) ==
    IF c.state = "SNAP_OFF"
    THEN [c EXCEPT !.state = "IDLE", !.peelProgress = 0, !.peelVelocity = 0]
    ELSE c

\* a step that forgets Math.max(0, Math.min(1, ...))
stepNoClamp(c) ==
    IF c.state # "PEELING" /\ c.state # "SNAP_BACK" THEN c
    ELSE LET error == c.peelTarget - c.peelProgress
             v == RDiv(c.peelVelocity * SPRING_DAMP_PCT * FIXED_HZ
                         + error * SPRING_K * 100,
                       100 * FIXED_HZ)
             p == c.peelProgress + v
         IN IF /\ c.state = "SNAP_BACK"
               /\ Abs(p) < SETTLE_PROGRESS
               /\ Abs(v) < SETTLE_VELOCITY
            THEN [c EXCEPT !.state = "IDLE", !.peelProgress = 0, !.peelVelocity = 0]
            ELSE [c EXCEPT !.peelProgress = p, !.peelVelocity = v]

\* a step whose settle test names the wrong state
stepSettleWrongState(c) ==
    IF c.state # "PEELING" /\ c.state # "SNAP_BACK" THEN c
    ELSE LET error == c.peelTarget - c.peelProgress
             v == RDiv(c.peelVelocity * SPRING_DAMP_PCT * FIXED_HZ
                         + error * SPRING_K * 100,
                       100 * FIXED_HZ)
             p == Max2(0, Min2(UNIT, c.peelProgress + v))
         IN IF /\ c.state = "PEELING"
               /\ Abs(p) < SETTLE_PROGRESS
               /\ Abs(v) < SETTLE_VELOCITY
            THEN [c EXCEPT !.state = "IDLE", !.peelProgress = 0, !.peelVelocity = 0]
            ELSE [c EXCEPT !.peelProgress = p, !.peelVelocity = v]

\* a step whose settle branch forgets to zero progress and velocity
stepSettleKeepsValues(c) ==
    IF c.state # "PEELING" /\ c.state # "SNAP_BACK" THEN c
    ELSE LET error == c.peelTarget - c.peelProgress
             v == RDiv(c.peelVelocity * SPRING_DAMP_PCT * FIXED_HZ
                         + error * SPRING_K * 100,
                       100 * FIXED_HZ)
             p == Max2(0, Min2(UNIT, c.peelProgress + v))
         IN IF /\ c.state = "SNAP_BACK"
               /\ Abs(p) < SETTLE_PROGRESS
               /\ Abs(v) < SETTLE_VELOCITY
            THEN [c EXCEPT !.state = "IDLE", !.peelProgress = p, !.peelVelocity = v]
            ELSE [c EXCEPT !.peelProgress = p, !.peelVelocity = v]

\* StickerController.prototype._step(FIXED_DT)
step(c) ==
    IF c.state # "PEELING" /\ c.state # "SNAP_BACK" THEN c
    ELSE LET error == c.peelTarget - c.peelProgress
             \* velocity * SPRING_DAMP + error * SPRING_K * dt
             v == RDiv(c.peelVelocity * SPRING_DAMP_PCT * FIXED_HZ
                         + error * SPRING_K * 100,
                       100 * FIXED_HZ)
             p == Max2(0, Min2(UNIT, c.peelProgress + v))
         IN \* |progress| < 0.005 and |velocity| < 0.002
            IF /\ c.state = "SNAP_BACK"
               /\ Abs(p) < SETTLE_PROGRESS
               /\ Abs(v) < SETTLE_VELOCITY
            THEN [c EXCEPT !.state = "IDLE", !.peelProgress = 0, !.peelVelocity = 0]
            ELSE [c EXCEPT !.peelProgress = p, !.peelVelocity = v]

\* the while loop of update(): fixed steps while _accum >= FIXED_DT
RECURSIVE drain(_, _, _)
drain(c, acc, n) ==
    IF acc >= FIXED_DT THEN drain(step(c), Fl(acc - FIXED_DT), n + 1)
    ELSE [ctrl |-> c, accum |-> acc, substeps |-> n]

\* an update that runs at most one fixed step per frame
updateSingleStep(c, acc, dt) ==
    IF Fl(acc + dt) >= FIXED_DT
    THEN [ctrl |-> step(c), accum |-> Fl(Fl(acc + dt) - FIXED_DT), substeps |-> 1]
    ELSE [ctrl |-> c, accum |-> Fl(acc + dt), substeps |-> 0]

\* an update that returns at once outside the stepping states
updateSteppingOnly(c, acc, dt) ==
    IF c.state \in {"PEELING", "SNAP_BACK"} THEN drain(c, Fl(acc + dt), 0)
    ELSE [ctrl |-> c, accum |-> acc, substeps |-> 0]

\* StickerController.prototype.update(dt): the controller, _accum and the
\* number of fixed steps run
update(c, acc, dt) == drain(c, Fl(acc + dt), 0)

(* -------------------------- Grab Zone Tracker -------------------------- *)
\* pts(ax, ay, bx, by) of _initViewportEdges: 9 samples along an edge
pts(ax, ay, bx, by) ==
    [i \in 1..9 |-> UV(ax * UNIT + ((bx - ax) * UNIT * (i - 1)) \div 8,
                       ay * UNIT + ((by - ay) * UNIT * (i - 1)) \div 8)]

\* GrabZoneTracker.prototype._initViewportEdges
initViewportEdges ==
    << [path |-> pts(0, 0, 0, 1), normal |-> UV(UNIT, 0)],
       [path |-> pts(1, 0, 1, 1), normal |-> UV(-UNIT, 0)],
       [path |-> pts(0, 0, 1, 0), normal |-> UV(0, UNIT)],
       [path |-> pts(0, 1, 1, 1), normal |-> UV(0, -UNIT)] >>

\* a tracker that assigns the new zone instead of pushing it
addCrackBoundaryAssign(zs, waypoints, normal) ==
    << [path |-> waypoints, normal |-> normal] >>

\* GrabZoneTracker.prototype.addCrackBoundary
addCrackBoundary(zs, waypoints, normal) ==
    Append(zs, [path |-> waypoints, normal |-> normal])

\* a tracker reset that empties the list and forgets _initViewportEdges()
trackerResetNoEdges == << >>

\* GrabZoneTracker.prototype.reset
trackerReset == initViewportEdges

\* squared pixel distance of nearest(), in PXUNIT-ths of a pixel
pxDist2(cursorUV, pt, iw, ih) ==
    LET dx == RDiv((cursorUV.x - pt.x) * iw * PXUNIT, UNIT)
        dy == RDiv((cursorUV.y - pt.y) * ih * PXUNIT, UNIT)
    IN dx * dx + dy * dy

\* the (zone, point) index pairs the two loops of nearest() visit
zonePoints(zs) ==
    UNION { { <<zi, pi>> : pi \in 1..Len(zs[zi].path) } : zi \in 1..Len(zs) }

\* a point more than GRAB_SNAP_PX away along one axis is farther than that
\* from the cursor: nearest() cannot return it
inReach(cursorUV, pt, iw, ih) ==
    /\ (cursorUV.x - pt.x) * iw <= GRAB_SNAP_PX * UNIT
    /\ (pt.x - cursorUV.x) * iw <= GRAB_SNAP_PX * UNIT
    /\ (cursorUV.y - pt.y) * ih <= GRAB_SNAP_PX * UNIT
    /\ (pt.y - cursorUV.y) * ih <= GRAB_SNAP_PX * UNIT

\* a nearest() that takes the snap radius as an open bound
nearestOpenRadius(zs, cursorUV, iw, ih) ==
    LET snap2 == (GRAB_SNAP_PX * PXUNIT) * (GRAB_SNAP_PX * PXUNIT)
        near  == { k \in zonePoints(zs) :
                     /\ inReach(cursorUV, zs[k[1]].path[k[2]], iw, ih)
                     /\ pxDist2(cursorUV, zs[k[1]].path[k[2]], iw, ih) < snap2 }
        d2(k) == pxDist2(cursorUV, zs[k[1]].path[k[2]], iw, ih)
        before(j, k) == j[1] < k[1] \/ (j[1] = k[1] /\ j[2] < k[2])
        best  == CHOOSE k \in near : \A j \in near :
                     d2(k) < d2(j) \/ (d2(k) = d2(j) /\ ~before(j, k))
    IN IF near = {} THEN Null
       ELSE [zone |-> best[1], point |-> zs[best[1]].path[best[2]],
             dist2 |-> d2(best), normal |-> zs[best[1]].normal]

\* GrabZoneTracker.prototype.nearest: the first point of least distance, if
\* that distance is at most GRAB_SNAP_PX.  Only points within GRAB_SNAP_PX
\* can be returned, so the least one is looked for among those.
nearest(zs, cursorUV, iw, ih) ==
    LET snap2 == (GRAB_SNAP_PX * PXUNIT) * (GRAB_SNAP_PX * PXUNIT)
        near  == { k \in zonePoints(zs) :
                     /\ inReach(cursorUV, zs[k[1]].path[k[2]], iw, ih)
                     /\ pxDist2(cursorUV, zs[k[1]].path[k[2]], iw, ih) <= snap2 }
        d2(k) == pxDist2(cursorUV, zs[k[1]].path[k[2]], iw, ih)
        before(j, k) == j[1] < k[1] \/ (j[1] = k[1] /\ j[2] < k[2])
        best  == CHOOSE k \in near : \A j \in near :
                     d2(k) < d2(j) \/ (d2(k) = d2(j) /\ ~before(j, k))
    IN IF near = {} THEN Null
       ELSE [zone |-> best[1], point |-> zs[best[1]].path[best[2]],
             dist2 |-> d2(best), normal |-> zs[best[1]].normal]

(* --------------------------- Crack Generator --------------------------- *)
\* CrackGenerator.prototype._noise: fract(sin(x*127.1 + y*311.7) * 43758.5453),
\* a hash of (x, y) into [0,1).  The sine is replaced by a modular hash of
\* the same linear form; what is kept is that the value is in [0, UNIT) and
\* depends on nothing but x and y.
noise(x, y) ==
    LET h == (RDiv(x * 1271, 10) + RDiv(y * 3117, 10)) % 7919
    IN (h * 43758) % UNIT

\* index of the last smallest entry
RECURSIVE lastMin(_, _, _)
lastMin(ds, i, best) ==
    IF i > Len(ds) THEN best
    ELSE lastMin(ds, i + 1, IF ds[i] <= ds[best] THEN i ELSE best)

\* index (1..4) of the first smallest entry: edges.sort(...)[0], the sort stable
RECURSIVE firstMin(_, _, _)
firstMin(ds, i, best) ==
    IF i > Len(ds) THEN best
    ELSE firstMin(ds, i + 1, IF ds[i] < ds[best] THEN i ELSE best)

clamp01(a) == Max2(0, Min2(UNIT, a))

\* a buildPath whose loop starts at i = 0 instead of pushing the origin
buildPathJagsOrigin(originUV) ==
    LET targets == << UV(0, originUV.y), UV(UNIT, originUV.y),
                      UV(originUV.x, 0), UV(originUV.x, UNIT) >>
        dists   == << originUV.x, UNIT - originUV.x,
                      originUV.y, UNIT - originUV.y >>
        tgt     == targets[firstMin(dists, 1, 1)]
        dx      == tgt.x - originUV.x
        dy      == tgt.y - originUV.y
        len     == ISqrt(dx * dx + dy * dy)
        dir     == IF len = 0 THEN UV(0, 0)
                   ELSE UV(RDiv(dx * UNIT, len), RDiv(dy * UNIT, len))
        perp    == UV(-dir.y, dir.x)
        nsteps  == IF len = 0 THEN 1 ELSE CeilDiv(len, CRACK_STEP_SIZE)
        wp(i)   ==
            LET base == UV(originUV.x + RDiv(dx * i, nsteps),
                           originUV.y + RDiv(dy * i, nsteps))
                n    == noise(RDiv(base.x * 73, 10) + i * ((31 * UNIT) \div 100),
                              RDiv(base.y * 51, 10) + i * ((17 * UNIT) \div 100))
                jag  == RDiv((2 * n - UNIT) * TEAR_JAGGEDNESS_PCT * 3 * (2 * nsteps - i),
                             2 * 100 * 10 * 2 * nsteps)
            IN UV(clamp01(base.x + RDiv(perp.x * jag, UNIT)),
                  clamp01(base.y + RDiv(perp.y * jag, UNIT)))
    IN [k \in 1..(nsteps + 1) |-> wp(k - 1)]

\* a buildPath whose jag comes from a generator advanced by every crack
\* (Math.random in place of _noise)
buildPathRandom(originUV) ==
    LET targets == << UV(0, originUV.y), UV(UNIT, originUV.y),
                      UV(originUV.x, 0), UV(originUV.x, UNIT) >>
        dists   == << originUV.x, UNIT - originUV.x,
                      originUV.y, UNIT - originUV.y >>
        tgt     == targets[firstMin(dists, 1, 1)]
        dx      == tgt.x - originUV.x
        dy      == tgt.y - originUV.y
        len     == ISqrt(dx * dx + dy * dy)
        dir     == IF len = 0 THEN UV(0, 0)
                   ELSE UV(RDiv(dx * UNIT, len), RDiv(dy * UNIT, len))
        perp    == UV(-dir.y, dir.x)
        nsteps  == IF len = 0 THEN 1 ELSE CeilDiv(len, CRACK_STEP_SIZE)
        wp(i)   ==
            LET base == UV(originUV.x + RDiv(dx * i, nsteps),
                           originUV.y + RDiv(dy * i, nsteps))
                n    == noise(snapOffCalls * UNIT, i * UNIT)
                jag  == RDiv((2 * n - UNIT) * TEAR_JAGGEDNESS_PCT * 3 * (2 * nsteps - i),
                             2 * 100 * 10 * 2 * nsteps)
            IN UV(clamp01(base.x + RDiv(perp.x * jag, UNIT)),
                  clamp01(base.y + RDiv(perp.y * jag, UNIT)))
    IN [k \in 1..(nsteps + 1) |-> IF k = 1 THEN UV(originUV.x, originUV.y)
                                  ELSE wp(k - 1)]

\* CrackGenerator.prototype.buildPath
buildPath(originUV) ==
    LET targets == << UV(0, originUV.y), UV(UNIT, originUV.y),
                      UV(originUV.x, 0), UV(originUV.x, UNIT) >>
        dists   == << originUV.x, UNIT - originUV.x,
                      originUV.y, UNIT - originUV.y >>
        tgt     == targets[firstMin(dists, 1, 1)]
        dx      == tgt.x - originUV.x
        dy      == tgt.y - originUV.y
        len     == ISqrt(dx * dx + dy * dy)
        \* len || 1e-6: a zero length gives direction (0, 0) and one step
        dir     == IF len = 0 THEN UV(0, 0)
                   ELSE UV(RDiv(dx * UNIT, len), RDiv(dy * UNIT, len))
        perp    == UV(-dir.y, dir.x)
        nsteps  == IF len = 0 THEN 1 ELSE CeilDiv(len, CRACK_STEP_SIZE)
        wp(i)   ==
            LET base == UV(originUV.x + RDiv(dx * i, nsteps),
                           originUV.y + RDiv(dy * i, nsteps))
                n    == noise(RDiv(base.x * 73, 10) + i * ((31 * UNIT) \div 100),
                              RDiv(base.y * 51, 10) + i * ((17 * UNIT) \div 100))
                \* (noise - 0.5) * TEAR_JAGGEDNESS * 0.3 * (1 - t * 0.5)
                jag  == RDiv((2 * n - UNIT) * TEAR_JAGGEDNESS_PCT * 3 * (2 * nsteps - i),
                             2 * 100 * 10 * 2 * nsteps)
            IN UV(clamp01(base.x + RDiv(perp.x * jag, UNIT)),
                  clamp01(base.y + RDiv(perp.y * jag, UNIT)))
    IN [k \in 1..(nsteps + 1) |-> IF k = 1 THEN UV(originUV.x, originUV.y)
                                  ELSE wp(k - 1)]

\* Math.cos and Math.sin of an angle of 0.52 to 1.04 rad, by their Taylor
\* polynomials up to the sixth and seventh power
cos(a) ==
    LET a2 == RDiv(a * a, UNIT)
        a4 == RDiv(a2 * a2, UNIT)
        a6 == RDiv(a4 * a2, UNIT)
    IN UNIT - RDiv(a2, 2) + RDiv(a4, 24) - RDiv(a6, 720)

sin(a) ==
    LET a2 == RDiv(a * a, UNIT)
        a3 == RDiv(a2 * a, UNIT)
        a5 == RDiv(a3 * a2, UNIT)
        a7 == RDiv(a5 * a2, UNIT)
    IN a - RDiv(a3, 6) + RDiv(a5, 120) - RDiv(a7, 5040)

\* buildBranches: number of branches, 2 when the noise of the origin
\* exceeds 0.4
branchCount(primaryPath) ==
    IF noise(RDiv(primaryPath[1].x * 31, 10), RDiv(primaryPath[1].y * 79, 10))
           > (4 * UNIT) \div 10
    THEN 2 ELSE 1

\* buildBranches: startIdx (0-based) of branch b
startIdx(primaryPath, b) ==
    ( ( (25 * UNIT) \div 100 + b * ((2 * UNIT) \div 10)
        + RDiv(noise(b * ((7 * UNIT) \div 10), primaryPath[1].x) * 2, 10) )
      * Len(primaryPath) ) \div UNIT

\* a start that takes primaryPath[startIdx] as it is
branchStartUnclamped(primaryPath, b) ==
    primaryPath[startIdx(primaryPath, b) + 1]

\* buildBranches: start = primaryPath[Math.min(startIdx, length - 2)]
branchStart(primaryPath, b) ==
    primaryPath[Min2(startIdx(primaryPath, b), Len(primaryPath) - 2) + 1]

\* buildBranches: the waypoints pushed after prev, steps i..nsteps
RECURSIVE branchWalk(_, _, _, _)
branchWalk(prev, bdir, i, nsteps) ==
    IF i > nsteps THEN << >>
    ELSE LET jag  == RDiv((noise(RDiv(prev.x * 91, 10) + i * ((7 * UNIT) \div 10),
                                 RDiv(prev.y * 63, 10)) * 2 - UNIT)
                          * TEAR_JAGGEDNESS_PCT * 15, 2 * 100 * 100)
             perp == UV(-bdir.y, bdir.x)
             nxt  == UV(clamp01(prev.x + RDiv(bdir.x * CRACK_STEP_SIZE, UNIT)
                                + RDiv(perp.x * jag, UNIT)),
                        clamp01(prev.y + RDiv(bdir.y * CRACK_STEP_SIZE, UNIT)
                                + RDiv(perp.y * jag, UNIT)))
         IN << nxt >> \o branchWalk(nxt, bdir, i + 1, nsteps)

\* buildBranches: branch b of the loop
buildBranch(primaryPath, b) ==
    LET start      == branchStart(primaryPath, b)
        n          == Len(primaryPath)
        primaryDir == UV(primaryPath[n].x - primaryPath[1].x,
                         primaryPath[n].y - primaryPath[1].y)
        \* (0.52 + noise * 0.52) * (b % 2 === 0 ? 1 : -1)
        angle      == (52 * UNIT) \div 100
                      + RDiv(noise(b * ((13 * UNIT) \div 10), start.x) * 52, 100)
        c          == cos(angle)
        s          == IF b % 2 = 0 THEN sin(angle) ELSE -sin(angle)
        branchDir  == UV(RDiv(primaryDir.x * c - primaryDir.y * s, UNIT),
                         RDiv(primaryDir.x * s + primaryDir.y * c, UNIT))
        dlen       == ISqrt(branchDir.x * branchDir.x + branchDir.y * branchDir.y)
        \* dlen || 1e-6: a zero length gives direction (0, 0)
        bdir       == IF dlen = 0 THEN UV(0, 0)
                      ELSE UV(RDiv(branchDir.x * UNIT, dlen),
                              RDiv(branchDir.y * UNIT, dlen))
        branchLen  == UNIT \div 10
                      + RDiv(noise(b * ((21 * UNIT) \div 10), start.y) * 12, 100)
        nsteps     == CeilDiv(branchLen, CRACK_STEP_SIZE)
    IN << UV(start.x, start.y) >> \o branchWalk(start, bdir, 1, nsteps)

\* CrackGenerator.prototype.buildBranches
buildBranches(primaryPath) ==
    [b \in 1..branchCount(primaryPath) |-> buildBranch(primaryPath, b - 1)]

(* ----------------------------- Sticker Layer --------------------------- *)
corners == << UV(0, 0), UV(UNIT, 0), UV(UNIT, UNIT), UV(0, UNIT) >>

RECURSIVE nearestCornerScan(_, _, _)
nearestCornerScan(pt, i, best) ==
    IF i > 4 THEN best
    ELSE LET d2(k) == (corners[k].x - pt.x) * (corners[k].x - pt.x)
                      + (corners[k].y - pt.y) * (corners[k].y - pt.y)
         IN nearestCornerScan(pt, i + 1, IF d2(i) < d2(best) THEN i ELSE best)

\* nearestCornerIdx of _doSnapOff (1-based)
nearestCornerIdx(pt) == nearestCornerScan(pt, 1, 1)

\* the corner walk of _doSnapOff: while (ci !== firstCorner && steps < 4)
RECURSIVE cornerWalk(_, _, _, _)
cornerWalk(poly, ci, firstCorner, n) ==
    IF ci # firstCorner /\ n < 4
    THEN cornerWalk(Append(poly, corners[ci]), (ci % 4) + 1, firstCorner, n + 1)
    ELSE poly

\* the closed tear polygon of _doSnapOff
tearPolygon(primary) ==
    LET lastCorner  == nearestCornerIdx(primary[Len(primary)])
        firstCorner == nearestCornerIdx(primary[1])
    IN Append(cornerWalk(primary, lastCorner, firstCorner, 0), corners[firstCorner])

RECURSIVE seqMax(_, _, _)
seqMax(f, i, m) == IF i > Len(f) THEN m ELSE seqMax(f, i + 1, Max2(m, f[i]))
RECURSIVE seqMin(_, _, _)
seqMin(f, i, m) == IF i > Len(f) THEN m ELSE seqMin(f, i + 1, Min2(m, f[i]))

\* twice the area * 0.5 of _doSnapOff: the bounding-box area of the polygon,
\* in units of 1 / (2 * UNIT * UNIT)
bboxArea(polygon) ==
    LET xs == [i \in 1..Len(polygon) |-> polygon[i].x]
        ys == [i \in 1..Len(polygon) |-> polygon[i].y]
    IN (seqMax(xs, 1, xs[1]) - seqMin(xs, 1, xs[1]))
         * (seqMax(ys, 1, ys[1]) - seqMin(ys, 1, ys[1]))

\* an estimate that forgets the running total
estimateNoRunningTotal(polygon, currentFraction) ==
    Min2(FRACTION_ONE, bboxArea(polygon))

\* an estimate that forgets Math.min(1, ...)
estimateNoClamp(polygon, currentFraction) ==
    currentFraction + bboxArea(polygon)

\* this._tornFraction = Math.min(1, this._tornFraction + area * 0.5)
estimateTornFraction(polygon, currentFraction) ==
    Min2(FRACTION_ONE, currentFraction + bboxArea(polygon))

\* the texels of tearMaskRT, by column and row
MaskCells == (1..MaskSize) \X (1..MaskSize)

\* the UV centre of a texel
cellCentre(cell) ==
    UV(((2 * cell[1] - 1) * UNIT) \div (2 * MaskSize),
       ((2 * cell[2] - 1) * UNIT) \div (2 * MaskSize))

\* the edge from a to b crosses the ray from pt towards larger x
edgeCrosses(pt, a, b) ==
    /\ (a.y > pt.y) # (b.y > pt.y)
    /\ IF b.y > a.y
       THEN (pt.x - a.x) * (b.y - a.y) < (pt.y - a.y) * (b.x - a.x)
       ELSE (pt.x - a.x) * (b.y - a.y) > (pt.y - a.y) * (b.x - a.x)

\* the texels the black mesh of the closed shape covers: those whose centre
\* is inside the polygon
covered(uvPath) ==
    LET n == Len(uvPath)
        crossings(pt) == { i \in 1..n :
                             edgeCrosses(pt, uvPath[i], uvPath[(i % n) + 1]) }
    IN { cell \in MaskCells : Cardinality(crossings(cellCentre(cell))) % 2 = 1 }

\* the texels that read 0 (torn) after the fills in mask.  renderer.render
\* draws the mesh over the target; it clears the target to the clear colour
\* (0x000000) first when renderer.autoClear is set, which fillPolygon neither
\* sets nor clears.
removed(mask, autoClear) ==
    IF autoClear /\ mask # << >> THEN MaskCells
    ELSE UNION { covered(mask[i]) : i \in 1..Len(mask) }

\* a fill that clears the mask to intact before it draws
fillPolygonClearsFirst(mask, uvPath) ==
    IF Len(uvPath) < 3 THEN mask ELSE << uvPath >>

\* MaskPainter.prototype.fillPolygon
fillPolygon(mask, uvPath) ==
    IF Len(uvPath) < 3 THEN mask ELSE Append(mask, uvPath)

\* MaskPainter.prototype.reset
maskReset == << >>

\* a resize handler that calls the tracker's reset()
onResizeResetsTracker(zs) == trackerReset

\* a resize handler that drops the newest crack boundary
onResizeDropsNewest(zs) ==
    IF Len(zs) > 4 THEN SubSeq(zs, 1, Len(zs) - 1) ELSE zs

\* StickerLayer.prototype._onResize: renderer.setSize(...) and nothing else,
\* the tracker's zones are what they were
onResize(zs) == zs

\* a fired callback: name and arguments
Call(cb, a, b) == [cb |-> cb, a |-> a, b |-> b]

\* the onHoverChange callback wired by StickerLayer.init: the value it gives
\* _canvas.style.cursor
onHoverChange(zone) == IF zone = Null THEN "default" ELSE "grab"

\* StickerLayer.prototype._updateHover: the argument it passes to setHover
hoverArg(zs, pointerUV) ==
    LET z == nearest(zs, pointerUV, viewport.w, viewport.h)
    IN IF z = Null THEN Null ELSE [point |-> z.point, normal |-> z.normal]

(* ---------------------- sticker.js: Union-Find -------------------------- *)
\* new UnionFind(n): elements 0..n-1, each its own parent, all ranks 0
UnionFind(n) ==
    [parent |-> [i \in 0..(n - 1) |-> i], rank |-> [i \in 0..(n - 1) |-> 0]]

\* UnionFind.prototype.find with its path halving: the structure after the
\* call and the root returned
RECURSIVE find(_, _)
find(u, x) ==
    IF u.parent[x] = x THEN [uf |-> u, root |-> x]
    ELSE LET half == u.parent[u.parent[x]]
         IN find([u EXCEPT !.parent[x] = half], half)

\* a union that links the arguments themselves instead of their roots
unionNoFind(u, a, b) ==
    IF a = b THEN u
    ELSE LET hi == IF u.rank[a] < u.rank[b] THEN b ELSE a
             lo == IF u.rank[a] < u.rank[b] THEN a ELSE b
             u1 == [u EXCEPT !.parent[lo] = hi]
         IN IF u.rank[hi] = u.rank[lo]
            THEN [u1 EXCEPT !.rank[hi] = (u.rank[hi] + 1) % 256]
            ELSE u1

\* UnionFind.prototype.union: by rank, the rank a Uint8
union(u, a, b) ==
    LET fa == find(u, a)
        fb == find(fa.uf, b)
        u2 == fb.uf
        ra == fa.root
        rb == fb.root
    IN IF ra = rb THEN u2
       ELSE LET hi == IF u2.rank[ra] < u2.rank[rb] THEN rb ELSE ra
                lo == IF u2.rank[ra] < u2.rank[rb] THEN ra ELSE rb
                u3 == [u2 EXCEPT !.parent[lo] = hi]
            IN IF u2.rank[hi] = u2.rank[lo]
               THEN [u3 EXCEPT !.rank[hi] = (u2.rank[hi] + 1) % 256]
               ELSE u3

(* ---------------------- sticker.js: Tear System ------------------------- *)
nodeCount == LatticeW * LatticeH

\* TearSystem.prototype._init: the constraints added for node idx, in order:
\* horizontal, vertical, diagonal
nodeConstraints(idx) ==
    LET i == idx % LatticeW
        j == idx \div LatticeW
    IN (IF i + 1 < LatticeW THEN << [a |-> idx, b |-> idx + 1] >> ELSE << >>)
       \o (IF j + 1 < LatticeH THEN << [a |-> idx, b |-> idx + LatticeW] >> ELSE << >>)
       \o (IF i + 1 < LatticeW /\ j + 1 < LatticeH
           THEN << [a |-> idx, b |-> idx + LatticeW + 1] >> ELSE << >>)

\* conA[c], conB[c] for c = 1..conCount
RECURSIVE constraintsFrom(_)
constraintsFrom(idx) ==
    IF idx >= nodeCount THEN << >>
    ELSE nodeConstraints(idx) \o constraintsFrom(idx + 1)

constraints == constraintsFrom(0)
conCount == Len(constraints)

\* TearSystem.prototype._rebuildUF: the loop over the constraints from c on
RECURSIVE rebuildFrom(_, _, _)
rebuildFrom(u, conBroken, c) ==
    IF c > conCount THEN u
    ELSE CHOOSE r \in
             { rebuildFrom(u1, conBroken, c + 1) :
                  u1 \in { IF conBroken[c] = 0
                           THEN union(u, constraints[c].a, constraints[c].b)
                           ELSE u } } : TRUE

rebuildUF(ts) ==
    [ts EXCEPT !.uf = rebuildFrom(UnionFind(nodeCount), ts.conBroken, 1)]

\* new TearSystem(lw, lh, params): every node pinned, no constraint broken
TearSystem ==
    rebuildUF([pinned    |-> [i \in 0..(nodeCount - 1) |-> 1],
               conBroken |-> [c \in 1..conCount |-> 0],
               uf        |-> UnionFind(nodeCount),
               grabNode  |-> -1])

\* a _pinnedRoots that collects the pinned nodes themselves (roots.add(i))
RECURSIVE pinnedRootsNoFind(_, _, _, _)
pinnedRootsNoFind(u, pinned, i, roots) ==
    IF i >= nodeCount THEN [uf |-> u, roots |-> roots]
    ELSE pinnedRootsNoFind(u, pinned, i + 1,
                           IF pinned[i] # 0 THEN roots \cup {i} ELSE roots)

\* TearSystem.prototype._pinnedRoots: the loop from node i on; find halves
\* paths as it goes
RECURSIVE pinnedRoots(_, _, _, _)
pinnedRoots(u, pinned, i, roots) ==
    IF i >= nodeCount THEN [uf |-> u, roots |-> roots]
    ELSE IF pinned[i] # 0
         THEN CHOOSE r \in { pinnedRoots(f.uf, pinned, i + 1, roots \cup {f.root}) :
                                f \in { find(u, i) } } : TRUE
         ELSE pinnedRoots(u, pinned, i + 1, roots)

\* getDetachedUVs: the loop from node i on; node i stands for the pair
\* px[i], py[i] it pushes
RECURSIVE detachedFrom(_, _, _, _)
detachedFrom(u, roots, i, uvs) ==
    IF i >= nodeCount THEN [uf |-> u, uvs |-> uvs]
    ELSE CHOOSE r \in
             { detachedFrom(f.uf, roots, i + 1,
                            IF f.root \in roots THEN uvs ELSE Append(uvs, i)) :
                  f \in { find(u, i) } } : TRUE

\* TearSystem.prototype.getDetachedUVs: the system after the call and the
\* nodes whose positions are returned
getDetachedUVs(ts) ==
    CHOOSE r \in
        { [ts |-> [rebuilt EXCEPT !.uf = d.uf], uvs |-> d.uvs] :
             rebuilt \in { rebuildUF(ts) },
             d \in { detachedFrom(pr.uf, pr.roots, 0, << >>) :
                        pr \in { pinnedRoots(rebuildUF(ts).uf, ts.pinned, 0, {}) } } } :
        TRUE

\* TearSystem.prototype.nodeAt
nodeAt(uv) ==
    LET i == Max2(0, Min2(LatticeW - 1, RDiv(uv.x * (LatticeW - 1), UNIT)))
        j == Max2(0, Min2(LatticeH - 1, RDiv(uv.y * (LatticeH - 1), UNIT)))
    IN j * LatticeW + i

\* TearSystem.prototype.releaseRegion: the nodes within the ellipse of radii
\* ir, jr around the nearest node are unpinned
releaseRegion(ts, uv, radius) ==
    LET ic == RDiv(uv.x * (LatticeW - 1), UNIT)
        jc == RDiv(uv.y * (LatticeH - 1), UNIT)
        ir == CeilDiv(radius * (LatticeW - 1), UNIT) + 1
        jr == CeilDiv(radius * (LatticeH - 1), UNIT) + 1
        hit(n) ==
            LET di == (n % LatticeW) - ic
                dj == (n \div LatticeW) - jc
            IN /\ Abs(di) <= ir
               /\ Abs(dj) <= jr
               \* fx * fx + fy * fy <= 1 with fx = di / ir, fy = dj / jr
               /\ di * di * jr * jr + dj * dj * ir * ir <= ir * ir * jr * jr
    IN [ts EXCEPT !.pinned = [n \in 0..(nodeCount - 1) |->
                                 IF hit(n) THEN 0 ELSE ts.pinned[n]]]

\* TearSystem.prototype.update: the constraints whose strain can exceed the
\* toughness are those with a free end, a pinned node never moving; the
\* positions and the strain are not kept, any of those constraints may break
breakable(ts) ==
    { c \in 1..conCount :
         /\ ts.conBroken[c] = 0
         /\ (ts.pinned[constraints[c].a] = 0 \/ ts.pinned[constraints[c].b] = 0) }

tearUpdate(ts, broken) ==
    IF ts.grabNode < 0 THEN ts
    ELSE [ts EXCEPT !.conBroken = [c \in 1..conCount |->
                                      IF c \in broken THEN 1 ELSE ts.conBroken[c]]]

\* TearSystem.prototype.reset
tearReset(ts) ==
    rebuildUF([ts EXCEPT !.pinned    = [i \in 0..(nodeCount - 1) |-> 1],
                         !.conBroken = [c \in 1..conCount |-> 0],
                         !.grabNode  = -1])

(* -------------------- sticker.js: Sticker Controller -------------------- *)
\* STICKER_PARAMS of sticker.js; SPRING_DAMP = 0.80 in hundredths
STICKER_SPRING_K == 7
STICKER_SPRING_DAMP_PCT == 80
\* STICK_FORCE_THRESH = 0.025, SLIP_IMPULSE = 0.06
STICK_FORCE_THRESH == 250
SLIP_IMPULSE == 600
NOTCH_THRESHOLD == 3
\* NOTCH_RADIUS_UV = 0.07
NOTCH_RADIUS_UV == 700
EDGE_MARGIN_PX == 90
\* RESIDUE_DEPOSITION_RATE = 0.35, RESIDUE_POP_BOOST = 1.8
RESIDUE_DEPOSITION_RATE == 3500
RESIDUE_POP_BOOST == 18000

StickerStates == {"IDLE", "NOTCHING", "GRABBED", "TEARING"}

\* new StickerController(params); notchDamage is the Map, its domain the keys
\* set so far; stuckSteps counts the fixed steps summed into stuckTime
StickerController ==
    [state           |-> "IDLE",
     peelProgress    |-> 0,
     peelVelocity    |-> 0,
     peelTarget      |-> 0,
     grabUV          |-> UV(0, 0),
     peelDir         |-> UV(UNIT, 0),
     pointerUV       |-> UV(0, 0),
     isStuck         |-> FALSE,
     stuckSteps      |-> 0,
     notchDamage     |-> << >>,
     activeNotch     |-> Null,
     pendingTears    |-> << >>,
     pendingResidue  |-> << >>]

\* StickerController.prototype._uvFromPointer; e = [clientX, clientY] in pixels
uvFromPointer(e) ==
    UV(RDiv(e.clientX * UNIT, innerWidth), RDiv(e.clientY * UNIT, innerHeight))

\* StickerController.prototype._notchKey of the event's uv: r = Math.round(1 /
\* NOTCH_RADIUS_UV), key = Math.round(u * r) + ',' + Math.round(v * r)
notchKey(e) ==
    LET r == RDiv(UNIT, NOTCH_RADIUS_UV)
    IN << RDiv(e.clientX * r, innerWidth), RDiv(e.clientY * r, innerHeight) >>

\* StickerController.prototype._isNearEdge of the event's uv: u < mx, u > 1 -
\* mx, v < my, v > 1 - my, multiplied through by the window size
isNearEdge(e) ==
    \/ e.clientX < EDGE_MARGIN_PX
    \/ e.clientX > innerWidth - EDGE_MARGIN_PX
    \/ e.clientY < EDGE_MARGIN_PX
    \/ e.clientY > innerHeight - EDGE_MARGIN_PX

\* this.notchDamage.get(key) || 0
notchCount(c, key) ==
    IF key \in DOMAIN c.notchDamage THEN c.notchDamage[key] ELSE 0

\* this.notchDamage.set(key, dmg)
notchSet(c, key, dmg) ==
    [k \in (DOMAIN c.notchDamage) \cup {key} |->
        IF k = key THEN dmg ELSE c.notchDamage[k]]

\* the initial peel direction: away from the nearest edge
awayFromEdge(uv) ==
    LET dl == uv.x
        dr == UNIT - uv.x
        dt == uv.y
        db == UNIT - uv.y
        minD == Min2(Min2(dl, dr), Min2(dt, db))
    IN IF minD = dl THEN UV(UNIT, 0)
       ELSE IF minD = dr THEN UV(-UNIT, 0)
       ELSE IF minD = dt THEN UV(0, UNIT)
       ELSE UV(0, -UNIT)

\* an onPointerDown whose gate also opens on the click before the threshold
stickerPointerDownEarlyGrab(c, e) ==
    LET uv == uvFromPointer(e)
    IN IF c.state = "IDLE"
       THEN IF ~isNearEdge(e) THEN [c |-> c, armed |-> FALSE]
            ELSE LET key == notchKey(e)
                     dmg == notchCount(c, key) + 1
                     c1  == [c EXCEPT !.notchDamage = notchSet(c, key, dmg)]
                 IN IF dmg < NOTCH_THRESHOLD - 1
                    THEN [c |-> [c1 EXCEPT !.state = "NOTCHING"], armed |-> TRUE]
                    ELSE [c |-> [c1 EXCEPT !.activeNotch = uv,
                                           !.grabUV = uv,
                                           !.state = "GRABBED",
                                           !.peelTarget = 0,
                                           !.peelProgress = 0,
                                           !.peelVelocity = 0,
                                           !.isStuck = FALSE,
                                           !.peelDir = awayFromEdge(uv)],
                          armed |-> FALSE]
       ELSE IF c.state \in {"GRABBED", "TEARING"}
       THEN [c |-> [c EXCEPT !.pointerUV = uv], armed |-> FALSE]
       ELSE [c |-> c, armed |-> FALSE]

\* StickerController.prototype.onPointerDown (sticker.js): the controller
\* after the call, and whether the 200 ms timeout was armed
stickerPointerDown(c, e) ==
    LET uv == uvFromPointer(e)
    IN IF c.state = "IDLE"
       THEN IF ~isNearEdge(e) THEN [c |-> c, armed |-> FALSE]
            ELSE LET key == notchKey(e)
                     dmg == notchCount(c, key) + 1
                     c1  == [c EXCEPT !.notchDamage = notchSet(c, key, dmg)]
                 IN IF dmg < NOTCH_THRESHOLD
                    THEN [c |-> [c1 EXCEPT !.state = "NOTCHING"], armed |-> TRUE]
                    ELSE [c |-> [c1 EXCEPT !.activeNotch = uv,
                                           !.grabUV = uv,
                                           !.state = "GRABBED",
                                           !.peelTarget = 0,
                                           !.peelProgress = 0,
                                           !.peelVelocity = 0,
                                           !.isStuck = FALSE,
                                           !.peelDir = awayFromEdge(uv)],
                          armed |-> FALSE]
       ELSE IF c.state \in {"GRABBED", "TEARING"}
       THEN [c |-> [c EXCEPT !.pointerUV = uv], armed |-> FALSE]
       ELSE [c |-> c, armed |-> FALSE]

\* the 200 ms timeout armed by a notching click
notchTimeout(c) ==
    IF c.state = "NOTCHING" THEN [c EXCEPT !.state = "IDLE"] ELSE c

\* StickerController.prototype.onPointerMove (sticker.js)
stickerPointerMove(c, e) ==
    LET uv == uvFromPointer(e)
        c1 == [c EXCEPT !.pointerUV = uv]
    IN IF c.state \notin {"GRABBED", "TEARING"} THEN c1
       ELSE LET dx     == uv.x - c.grabUV.x
                dy     == uv.y - c.grabUV.y
                dist   == ISqrt(dx * dx + dy * dy)
                target == Min2(UNIT, 2 * dist)
            IN [c1 EXCEPT
                  !.peelTarget = target,
                  !.peelDir = IF dist > DEAD_ZONE
                              THEN UV(RDiv(dx * UNIT, dist), RDiv(dy * UNIT, dist))
                              ELSE c.peelDir,
                  !.state = IF target > (20 * UNIT) \div 100 /\ c.state = "GRABBED"
                            THEN "TEARING" ELSE c.state]

\* StickerController.prototype.onPointerUp (sticker.js): the controller after
\* the call, and whether the 600 ms timeout was armed
stickerPointerUp(c) ==
    IF c.state \in {"GRABBED", "TEARING"}
    THEN [c |-> [c EXCEPT !.peelTarget = 0], armed |-> TRUE]
    ELSE [c |-> [c EXCEPT !.state = "IDLE"], armed |-> FALSE]

\* the 600 ms timeout armed by onPointerUp
releaseTimeout(c) ==
    IF c.state \in {"GRABBED", "TEARING"}
    THEN [c EXCEPT !.state = "IDLE", !.peelProgress = 0, !.peelVelocity = 0,
                   !.isStuck = FALSE]
    ELSE c

\* StickerController.prototype.peelFrontUV (sticker.js), the progress scaled
\* by pct hundredths
stickerFrontUV(c, pct) ==
    LET p == RDiv(c.peelProgress * pct, 100)
    IN UV(c.grabUV.x + RDiv(c.peelDir.x * p, UNIT),
          c.grabUV.y + RDiv(c.peelDir.y * p, UNIT))

\* StickerController.prototype._step(FIXED_DT) (sticker.js); rnd are the
\* values of Math.random(), UNIT = 1.0.  The result has the controller and
\* the number of onPop calls.
stickerStep(c, rnd) ==
    IF c.state \notin {"GRABBED", "TEARING"} THEN [c |-> c, pops |-> 0]
    ELSE
    LET error == c.peelTarget - c.peelProgress
        moved ==
            LET v == RDiv(c.peelVelocity * STICKER_SPRING_DAMP_PCT, 100)
                       + RDiv(error * STICKER_SPRING_K, FIXED_HZ)
                p == Max2(0, Min2(UNIT, c.peelProgress + v))
                sticks == /\ Abs(v) < (STICK_FORCE_THRESH * 4) \div 10
                          /\ Abs(error) < (15 * UNIT) \div 1000
            IN [c EXCEPT !.peelVelocity = v,
                         !.peelProgress = p,
                         !.isStuck = sticks,
                         !.stuckSteps = IF sticks THEN 0 ELSE c.stuckSteps]
        \* breakForce = |error| * K + stuckTime * 0.8 > STICK_FORCE_THRESH *
        \* 2.5, stuckTime = stuckSteps / FIXED_HZ, multiplied by 10 * FIXED_HZ
        n      == c.stuckSteps + 1
        breaks == 10 * FIXED_HZ * Abs(error) * STICKER_SPRING_K + 8 * n * UNIT
                    > 25 * FIXED_HZ * STICK_FORCE_THRESH
        sgn    == IF error > 0 THEN 1 ELSE IF error < 0 THEN -1 ELSE 0
        front  == stickerFrontUV(c, 100)
        popped ==
            [c EXCEPT !.stuckSteps = n,
                      !.isStuck = FALSE,
                      !.peelVelocity = c.peelVelocity + sgn * SLIP_IMPULSE,
                      !.pendingResidue = Append(c.pendingResidue,
                          [u |-> front.x + RDiv((rnd[1] - UNIT \div 2) * 3, 100),
                           v |-> front.y + RDiv((rnd[2] - UNIT \div 2) * 3, 100),
                           radius |-> (45 * UNIT) \div 1000,
                           intensity |-> RESIDUE_POP_BOOST,
                           seed |-> rnd[3] * 200])]
        c1   == IF ~c.isStuck THEN moved
                ELSE IF breaks THEN popped
                ELSE [c EXCEPT !.stuckSteps = n]
        pops == IF c.isStuck /\ breaks THEN 1 ELSE 0
        dep  == stickerFrontUV(c1, 85)
        c2   == IF c1.state = "TEARING" /\ rnd[4] < (12 * UNIT) \div 100
                THEN [c1 EXCEPT !.pendingResidue = Append(c1.pendingResidue,
                          [u |-> dep.x,
                           v |-> dep.y,
                           radius |-> (25 * UNIT) \div 1000
                                        + RDiv(rnd[5] * 25, 1000),
                           intensity |-> RESIDUE_DEPOSITION_RATE,
                           seed |-> rnd[6] * 200])]
                ELSE c1
    IN [c |-> c2, pops |-> pops]

\* a flush that leaves the residue queue as it is
flushKeepsResidue(c) ==
    [c      |-> [c EXCEPT !.pendingTears = << >>],
     result |-> [tears |-> c.pendingTears, residue |-> c.pendingResidue]]

\* StickerController.prototype.flush: the controller after the call and the
\* object returned
flush(c) ==
    [c      |-> [c EXCEPT !.pendingTears = << >>, !.pendingResidue = << >>],
     result |-> [tears |-> c.pendingTears, residue |-> c.pendingResidue]]

(* ------------------------------ environment ---------------------------- *)
\* where the pointer rests while no peel is held (UV)
HoverCursors ==
    { UV(0, UNIT \div 2),              \* on a sample of the left edge
      UV(UNIT \div 200, UNIT \div 2),  \* 9.6 px inside the left edge
      UV(UNIT \div 2, UNIT \div 2) }   \* the middle of the viewport: no zone
\* where the pointer is dragged to while a peel is held (UV)
DragCursors ==
    { UV(UNIT \div 200, UNIT \div 2),  \* inside the direction dead-zone
      UV(UNIT \div 10, UNIT \div 2),   \* short drag: target 0.22
      UV(UNIT \div 5, UNIT \div 2),    \* drag to target 0.44
      UV(UNIT, UNIT \div 2),           \* large jump to the right edge
      UV(0, (9 * UNIT) \div 10) }      \* along the left edge
\* the pointer resting on the newest crack boundary, where that tear began
CrackCursors ==
    IF Len(zones) > 4 THEN { zones[Len(zones)].path[1] } ELSE {}
\* the pointer positions offered in a controller state
Cursors(st) ==
    IF st = "PEELING" THEN DragCursors ELSE HoverCursors \cup CrackCursors

\* the sizes the window takes: the default and a wider one, in which the
\* hover cursor 0.005 from the left edge is 12.8 px away from it
Viewports ==
    { [w |-> innerWidth, h |-> innerHeight], [w |-> 2560, h |-> 1440] }

\* the tears a session may make: MaxTears, and MaxClearedTears more once the
\* torn fraction has reached CLEARED_THRESHOLD
TearBudget ==
    IF tornFraction >= CLEARED_THRESHOLD THEN MaxTears + MaxClearedTears
    ELSE MaxTears

\* the objects of sticker.js after construction
InitSticker ==
    /\ controller = StickerController
    /\ timeouts = [notch |-> 0, release |-> 0, stale |-> 0]
    /\ clicks = 0
    /\ queued = [tears |-> << >>, residue |-> << >>]
    /\ returned = [tears |-> << >>, residue |-> << >>]
    /\ tearSystem = TearSystem
    /\ uf = UnionFind(UFSize)
    /\ united = {}
    /\ tearTimer = 0

(* -------------------------------- actions ------------------------------ *)
Init ==
    /\ ctrl = newController
    /\ timers = 0
    /\ zones = initViewportEdges
    /\ tornFraction = 0
    /\ tearMask = << >>
    /\ fired = << >>
    /\ last = "init"
    /\ snapOffCalls = 0
    /\ drags = 0
    /\ steps = 0
    /\ viewport = [w |-> innerWidth, h |-> innerHeight]
    /\ accum = 0
    /\ probe = Null
    /\ InitSticker
    /\ cursor = ""

\* StickerLayer._onPointerMove: controller.onPointerMove(e), which returns at
\* once for an event on a link, button or form control, then _updateHover(uv)
PointerMove(uv) ==
    LET z == hoverArg(zones, uv)
    IN \E interactive \in BOOLEAN :
        /\ (ctrl.state = "PEELING" /\ ~interactive) => drags < MaxDrags
        /\ LET c1 == IF interactive THEN ctrl ELSE onPointerMove(ctrl, uv)
           IN /\ ctrl' = setHover(c1, z)
              /\ fired' = IF hoverChangeFires(c1, z)
                          THEN << Call("onHoverChange", z, Null) >> ELSE << >>
              /\ cursor' = IF hoverChangeFires(c1, z)
                           THEN onHoverChange(z) ELSE cursor
        /\ drags' = IF ctrl.state = "PEELING" /\ ~interactive THEN drags + 1 ELSE drags
        /\ last' = "pointerMove"
        /\ UNCHANGED <<timers, zones, tornFraction, tearMask, snapOffCalls, steps,
                       viewport, accum, probe, sticker>>

\* StickerLayer._onPointerDown: controller.onPointerDown(e)
PointerDown(interactive) ==
    /\ (ctrl.state = "HOVER" /\ ~interactive) =>
           (snapOffCalls < TearBudget /\ timers < MaxTimers)
    /\ ctrl' = IF interactive THEN ctrl ELSE onPointerDown(ctrl)
    /\ drags' = IF ctrl.state = "HOVER" /\ ~interactive THEN 0 ELSE drags
    /\ steps' = IF ctrl.state = "HOVER" /\ ~interactive THEN 0 ELSE steps
    /\ fired' = << >>
    /\ last' = IF interactive THEN "filtered" ELSE "pointerDown"
    /\ UNCHANGED <<timers, zones, tornFraction, tearMask, snapOffCalls, frame>>

\* StickerLayer._onPointerUp: controller.onPointerUp(e); on the SNAP_OFF branch
\* onSnapOff runs _doSnapOff inside the call and the 350 ms timer is armed
PointerUp(interactive) ==
    /\ last' = IF interactive THEN "filteredUp" ELSE "pointerUp"
    /\ ctrl' = IF interactive THEN ctrl ELSE onPointerUp(ctrl)
    /\ steps' = IF ctrl.state = "PEELING" /\ ~interactive THEN 0 ELSE steps
    /\ IF ~interactive /\ snapsOff(ctrl)
       THEN LET frontUV    == peelFrontUV(ctrl)
                grabNormal == ctrl.grabNormal
                primary    == buildPath(frontUV)
                polygon    == tearPolygon(primary)
                torn       == estimateTornFraction(polygon, tornFraction)
            IN /\ zones' = addCrackBoundary(zones, primary, grabNormal)
               /\ tearMask' = fillPolygon(tearMask, polygon)
               /\ tornFraction' = torn
               /\ fired' = << Call("onSnapOff", frontUV, grabNormal) >>
                             \o (IF torn >= CLEARED_THRESHOLD
                                 THEN << Call("onCleared", Null, Null) >> ELSE << >>)
               /\ snapOffCalls' = snapOffCalls + 1
               /\ timers' = timers + 1
       ELSE /\ fired' = << >>
            /\ UNCHANGED <<timers, zones, tornFraction, tearMask, snapOffCalls>>
    /\ UNCHANGED <<drags, frame>>

\* one fixed step of StickerController.update
Step ==
    /\ ctrl.state = "PEELING" => steps < MaxPeelSteps
    /\ ctrl' = step(ctrl)
    /\ steps' = IF ctrl.state \in {"PEELING", "SNAP_BACK"} THEN steps + 1 ELSE 0
    /\ fired' = << >>
    /\ last' = "step"
    /\ UNCHANGED <<timers, zones, tornFraction, tearMask, snapOffCalls, drags, frame>>

\* a 350 ms timeout armed by onPointerUp runs
TimerFire ==
    /\ timers > 0
    /\ timers' = timers - 1
    /\ ctrl' = snapOffTimeout(ctrl)
    /\ fired' = << >>
    /\ last' = "timer"
    /\ UNCHANGED <<zones, tornFraction, tearMask, snapOffCalls, drags, steps, frame>>

\* StickerLayer.prototype.reset of the redesigned layer: the controller and
\* the mask as the shipped reset() restores them, the tracker and the torn
\* fraction as the redesign's reset contract states
Reset ==
    /\ ctrl' = [ctrl EXCEPT !.state = "IDLE", !.peelProgress = 0, !.peelVelocity = 0]
    /\ tearMask' = maskReset
    /\ zones' = trackerReset
    /\ tornFraction' = 0
    /\ fired' = << >>
    /\ last' = "reset"
    /\ UNCHANGED <<timers, snapOffCalls, drags, steps, frame>>

\* the window is resized: StickerLayer._onResize runs; window.innerWidth and
\* window.innerHeight are read by the next pointer move
Resize(size) ==
    /\ size # viewport
    /\ viewport' = size
    /\ zones' = onResize(zones)
    /\ fired' = << >>
    /\ last' = "resize"
    /\ UNCHANGED <<ctrl, timers, tornFraction, tearMask, snapOffCalls, drags,
                   steps, accum, probe, sticker, cursor>>

Next ==
    \/ \E uv \in Cursors(ctrl.state) : PointerMove(uv)
    \/ \E interactive \in BOOLEAN : PointerDown(interactive)
    \/ \E interactive \in BOOLEAN : PointerUp(interactive)
    \/ Step
    \/ TimerFire
    \/ Reset

Spec == Init /\ [][Next]_vars

TypeOK ==
    /\ ctrl.state \in States
    /\ timers \in 0..(MaxTimers + MaxTears)
    /\ snapOffCalls \in 0..(MaxTears + MaxClearedTears)


(* ----------------------- further specifications ------------------------ *)
\* the browser runs every armed timeout and keeps calling update() from the
\* animation loop
SpecFair == Init /\ [][Next]_vars /\ WF_vars(TimerFire) /\ WF_vars(Step)

\* SNAP_BACK states to settle from: progress over [0,1], velocities over the
\* range the spring can reach, |v| <= SPRING_K * dt / (1 - SPRING_DAMP)
SnapBackProgress ==
    { 0, UNIT \div 200, UNIT \div 100, UNIT \div 10, UNIT \div 4,
      SNAP_THRESHOLD - 1, UNIT \div 2, (3 * UNIT) \div 4, UNIT }
SnapBackVelocity ==
    { -UNIT, -((3 * UNIT) \div 10), -(UNIT \div 10), -(UNIT \div 500), 0,
      UNIT \div 500, UNIT \div 10, (3 * UNIT) \div 10, UNIT }

InitSnapBack ==
    /\ ctrl \in { [newController EXCEPT !.state = "SNAP_BACK",
                                        !.peelProgress = p,
                                        !.peelVelocity = v] :
                    p \in SnapBackProgress, v \in SnapBackVelocity }
    /\ timers = 0
    /\ zones = initViewportEdges
    /\ tornFraction = 0
    /\ tearMask = << >>
    /\ fired = << >>
    /\ last = "init"
    /\ snapOffCalls = 0
    /\ drags = 0
    /\ steps = 0
    /\ viewport = [w |-> innerWidth, h |-> innerHeight]
    /\ accum = 0
    /\ probe = Null
    /\ InitSticker
    /\ cursor = ""

\* fixed steps and nothing else
SpecSnapBack == InitSnapBack /\ [][Step]_vars

\* zone lists nearest() is asked about: the fixed zones alone, with the crack
\* boundary of a tear at (0.25, 0.5), and with the boundary of a further tear
\* whose front lay on the right edge, on an edge waypoint
NearestZones ==
    LET one == addCrackBoundary(initViewportEdges,
                                buildPath(UV(UNIT \div 4, UNIT \div 2)), UV(UNIT, 0))
        two == addCrackBoundary(one, buildPath(UV(UNIT, UNIT \div 2)), UV(UNIT, 0))
    IN { initViewportEdges, one, two }

\* window sizes of the queries; 12 px is 0.01 of the width of the second
NearestViewports ==
    { [w |-> innerWidth, h |-> innerHeight], [w |-> 1200, h |-> 800] }

\* cursors of the queries
NearestCursors ==
    { UV(0, 0), UV(UNIT, UNIT), UV(0, UNIT \div 2), UV(UNIT, UNIT \div 2),
      UV(UNIT \div 2, UNIT \div 2), UV(UNIT \div 4, UNIT \div 2),
      UV(UNIT \div 200, UNIT \div 2), UV(UNIT \div 100, UNIT \div 2),
      UV(UNIT \div 100 + 1, UNIT \div 2), UV(UNIT - UNIT \div 100, UNIT \div 2),
      UV(UNIT \div 160, UNIT \div 2), UV(0, (9 * UNIT) \div 16),
      UV(UNIT \div 200, UNIT \div 2 + 129), UV(UNIT \div 200, UNIT \div 2 + 130),
      UV(UNIT \div 4, UNIT \div 2 + 100), UV(UNIT \div 8, UNIT \div 2),
      UV(UNIT \div 2, 0), UV(UNIT \div 2 + 50, UNIT \div 100),
      UV((3 * UNIT) \div 16, UNIT), UV(UNIT \div 5, UNIT \div 2 + 50) }

InitNearest ==
    /\ zones \in NearestZones
    /\ viewport \in NearestViewports
    /\ ctrl = newController
    /\ timers = 0
    /\ tornFraction = 0
    /\ tearMask = << >>
    /\ fired = << >>
    /\ last = "init"
    /\ snapOffCalls = 0
    /\ drags = 0
    /\ steps = 0
    /\ accum = 0
    /\ probe = Null
    /\ InitSticker
    /\ cursor = ""

\* this._grabTracker.nearest(cursorUV, window.innerWidth, window.innerHeight)
NearestQuery(cursorUV) ==
    /\ probe' = [op |-> "nearest", arg |-> cursorUV,
                 result |-> nearest(zones, cursorUV, viewport.w, viewport.h)]
    /\ last' = "nearest"
    /\ UNCHANGED <<ctrl, timers, zones, tornFraction, tearMask, fired,
                   snapOffCalls, drags, steps, viewport, accum, sticker, cursor>>

NextNearest == \E cursorUV \in NearestCursors : NearestQuery(cursorUV)

SpecNearest == InitNearest /\ [][NextNearest]_vars

\* closed paths handed to fillPolygon: two tear polygons, the polygons of the
\* torn-fraction test, a tear polygon without area and a path of 2 points
MaskPolygons ==
    { tearPolygon(buildPath(UV((726 * UNIT) \div 1000, UNIT \div 2))),
      tearPolygon(buildPath(UV(UNIT \div 4, UNIT \div 2))),
      << UV(0, 0), UV((3 * UNIT) \div 10, 0),
         UV((3 * UNIT) \div 10, (3 * UNIT) \div 10), UV(0, (3 * UNIT) \div 10) >>,
      << UV(0, 0), UV(UNIT, 0), UV(UNIT, UNIT), UV(0, UNIT) >>,
      << UV(UNIT, 0), UV(UNIT, UNIT), UV(UNIT \div 2, UNIT \div 2) >>,
      tearPolygon(buildPath(UV(UNIT, UNIT \div 2))),
      << UV(0, 0), UV(UNIT, UNIT) >> }

\* this._maskPainter.fillPolygon(uvPath)
MaskFill(uvPath) ==
    /\ Len(tearMask) < MaxFills
    /\ tearMask' = fillPolygon(tearMask, uvPath)
    /\ probe' = [op |-> "fillPolygon", arg |-> uvPath, result |-> Null]
    /\ last' = "fillPolygon"
    /\ UNCHANGED <<ctrl, timers, zones, tornFraction, fired, snapOffCalls,
                   drags, steps, viewport, accum, sticker, cursor>>

\* this._maskPainter.reset()
MaskReset ==
    /\ tearMask' = maskReset
    /\ probe' = [op |-> "maskReset", arg |-> Null, result |-> Null]
    /\ last' = "maskReset"
    /\ UNCHANGED <<ctrl, timers, zones, tornFraction, fired, snapOffCalls,
                   drags, steps, viewport, accum, sticker, cursor>>

NextMask ==
    \/ \E uvPath \in MaskPolygons : MaskFill(uvPath)
    \/ MaskReset

\* a mask painter driven directly: fills and resets in any order
SpecMask == Init /\ [][NextMask]_vars

\* controllers the animation loop finds: idle, a peel dragged to target
\* 0.44, a snap-back from 0.25
FrameControllers ==
    { newController,
      [newController EXCEPT !.state = "PEELING",
                            !.peelTarget = (44 * UNIT) \div 100],
      [newController EXCEPT !.state = "SNAP_BACK", !.peelProgress = UNIT \div 4] }

\* time between two animation frames: a hidden tab (0), an eighth and a half
\* of FIXED_DT, FIXED_DT, 9/8 of it, twice it, and a stall beyond the cap
FrameDeltas ==
    { 0, FIXED_DT \div 8, FIXED_DT \div 2, FIXED_DT, FIXED_DT + FIXED_DT \div 8,
      2 * FIXED_DT, Fl(TICKS_PER_SECOND \div 16) }

InitFrames ==
    /\ ctrl \in FrameControllers
    /\ timers = 0
    /\ zones = initViewportEdges
    /\ tornFraction = 0
    /\ tearMask = << >>
    /\ fired = << >>
    /\ last = "init"
    /\ snapOffCalls = 0
    /\ drags = 0
    /\ steps = 0
    /\ viewport = [w |-> innerWidth, h |-> innerHeight]
    /\ accum = 0
    /\ probe = Null
    /\ InitSticker
    /\ cursor = ""

\* one animation frame of StickerLayer._loop: dt = Math.min(raw, 0.05), and
\* controller.update(dt) if dt > 0
Frame(raw) ==
    LET dt == Min2(raw, MAX_FRAME_DT)
        u  == update(ctrl, accum, dt)
    IN /\ ctrl' = IF dt > 0 THEN u.ctrl ELSE ctrl
       /\ accum' = IF dt > 0 THEN u.accum ELSE accum
       /\ probe' = [op |-> "update", arg |-> dt,
                    result |-> IF dt > 0 THEN u.substeps ELSE 0]
       /\ last' = "frame"
       /\ fired' = << >>
       /\ UNCHANGED <<timers, zones, tornFraction, tearMask, snapOffCalls,
                      drags, steps, viewport, sticker, cursor>>

NextFrames == \E raw \in FrameDeltas : Frame(raw)

\* the animation loop alone, no input between the frames
SpecFrames == InitFrames /\ [][NextFrames]_vars

\* peel fronts handed to _doSnapOff: a grid over the viewport, its edges and
\* corners included, and fronts closer to an edge than one CRACK_STEP_SIZE
CrackOrigins ==
    { UV(x * (UNIT \div 10), y * (UNIT \div 10)) : x, y \in 0..10 }
    \cup { UV(UNIT \div 100, UNIT \div 2), UV(UNIT \div 2, UNIT - UNIT \div 100),
           UV(UNIT - 1, UNIT \div 3), UV(UNIT \div 200, UNIT \div 200) }

\* the first two lines of StickerLayer._doSnapOff: the primary path and its
\* branches are generated for a peel front
Crack(originUV) ==
    /\ snapOffCalls < MaxCracks
    /\ LET primary == buildPath(originUV)
       IN probe' = [op |-> "crack", arg |-> originUV,
                    result |-> [primary |-> primary,
                                branches |-> buildBranches(primary)]]
    /\ snapOffCalls' = snapOffCalls + 1
    /\ last' = "crack"
    /\ fired' = << >>
    /\ UNCHANGED <<ctrl, timers, zones, tornFraction, tearMask, drags, steps,
                   viewport, accum, sticker, cursor>>

\* an animation frame between two cracks: time passes, the crack record stays
CrackFrame(raw) ==
    LET dt == Min2(raw, MAX_FRAME_DT)
        u  == update(ctrl, accum, dt)
    IN /\ dt > 0
       /\ ctrl' = u.ctrl
       /\ accum' = u.accum
       /\ last' = "frame"
       /\ fired' = << >>
       /\ UNCHANGED <<timers, zones, tornFraction, tearMask, snapOffCalls,
                      drags, steps, viewport, probe, sticker, cursor>>

NextCrack ==
    \/ \E originUV \in CrackOrigins : Crack(originUV)
    \/ \E raw \in { FIXED_DT \div 2, FIXED_DT } : CrackFrame(raw)

\* the crack generator driven directly, frames passing between the cracks
SpecCrack == Init /\ [][NextCrack]_vars

\* grab points a peel is held at: a sample of the left edge, a sample of the
\* bottom edge, a point of a crack boundary inside the viewport
DragGrabs ==
    { [point |-> UV(0, UNIT \div 2), normal |-> UV(UNIT, 0)],
      [point |-> UV(UNIT \div 2, 0), normal |-> UV(0, UNIT)],
      [point |-> UV((3 * UNIT) \div 10, (4 * UNIT) \div 10), normal |-> UV(UNIT, 0)] }

\* displacements of the pointer from the grab point: none, inside the
\* dead-zone, exactly 0.03, just beyond it, short and long drags along both
\* axes and diagonals, and jumps of more than the viewport
DragOffsets ==
    { UV(0, 0), UV(UNIT \div 100, 0), UV(0, -(UNIT \div 50)),
      UV(DEAD_ZONE, 0), UV(0, DEAD_ZONE), UV(DEAD_ZONE + 1, 0),
      UV((18 * UNIT) \div 1000, (24 * UNIT) \div 1000),
      UV(UNIT \div 10, 0), UV(UNIT \div 5, UNIT \div 5), UV(-(UNIT \div 5), UNIT \div 10),
      UV((3 * UNIT) \div 10, -((4 * UNIT) \div 10)), UV(0, (45 * UNIT) \div 100),
      UV(UNIT, 0), UV(-UNIT, UNIT), UV(2 * UNIT, -UNIT) }

InitDrag ==
    /\ \E g \in DragGrabs :
          ctrl = onPointerDown(setHover(newController, g))
    /\ timers = 0
    /\ zones = initViewportEdges
    /\ tornFraction = 0
    /\ tearMask = << >>
    /\ fired = << >>
    /\ last = "init"
    /\ snapOffCalls = 0
    /\ drags = 0
    /\ steps = 0
    /\ viewport = [w |-> innerWidth, h |-> innerHeight]
    /\ accum = 0
    /\ probe = Null
    /\ InitSticker
    /\ cursor = ""

\* one pointer move delivered to the controller while the peel is held
\* (updatePeelTarget), the pointer at the grab point displaced by off
Drag(off) ==
    LET uv == UV(ctrl.grabUV.x + off.x, ctrl.grabUV.y + off.y)
    IN /\ ctrl' = onPointerMove(ctrl, uv)
       /\ probe' = [op |-> "onPointerMove", arg |-> uv, result |-> Null]
       /\ last' = "drag"
       /\ fired' = << >>
       /\ UNCHANGED <<timers, zones, tornFraction, tearMask, snapOffCalls,
                      drags, steps, viewport, accum, sticker, cursor>>

NextDrag == \E off \in DragOffsets : Drag(off)

\* a held peel dragged about, with no fixed step and no release in between
SpecDrag == InitDrag /\ [][NextDrag]_vars

\* the session with a window that is resized
NextResize ==
    \/ Next
    \/ \E size \in Viewports : Resize(size)

SpecResize == Init /\ [][NextResize]_vars

\* the UnionFind driven directly, as the simulation drives it: uf.union(a, b)
\* and uf.find(x) on UFSize elements
Union(a, b) ==
    /\ ({a, b} \in united \/ Cardinality(united) < MaxUnions)
    /\ uf' = union(uf, a, b)
    /\ united' = united \cup {{a, b}}
    /\ probe' = [op |-> "union", arg |-> << a, b >>, result |-> Null]
    /\ last' = "union"
    /\ fired' = << >>
    /\ UNCHANGED <<ctrl, timers, zones, tornFraction, tearMask, snapOffCalls,
                   drags, steps, viewport, accum, controller, timeouts, clicks,
                   queued, returned, tearSystem, cursor,
                   tearTimer>>

Find(x) ==
    /\ uf' = find(uf, x).uf
    /\ probe' = [op |-> "find", arg |-> x, result |-> find(uf, x).root]
    /\ last' = "find"
    /\ fired' = << >>
    /\ UNCHANGED <<ctrl, timers, zones, tornFraction, tearMask, snapOffCalls,
                   drags, steps, viewport, accum, controller, timeouts, clicks,
                   queued, returned, tearSystem, united, cursor,
                   tearTimer>>

NextUF ==
    \/ \E a, b \in 0..(UFSize - 1) : Union(a, b)
    \/ \E x \in 0..(UFSize - 1) : Find(x)

SpecUF == Init /\ [][NextUF]_vars

\* the tear system driven through its methods, as _updateTearSystem and the
\* simulation drive it.  Release points are the lattice nodes; the radius is
\* 0 (the nearest node and its four neighbours) or the layer's 0.09
TearPoints ==
    { UV((i * UNIT) \div (LatticeW - 1), (j * UNIT) \div (LatticeH - 1)) :
         i \in 0..(LatticeW - 1), j \in 0..(LatticeH - 1) }

TearRadii == { 0, (9 * UNIT) \div 100 }

brokenCount(ts) == Cardinality({ c \in 1..conCount : ts.conBroken[c] = 1 })

ReleaseRegion(uv, radius) ==
    /\ tearSystem' = releaseRegion(tearSystem, uv, radius)
    /\ probe' = [op |-> "releaseRegion", arg |-> uv, result |-> Null]
    /\ last' = "releaseRegion"
    /\ fired' = << >>
    /\ UNCHANGED <<ctrl, timers, zones, tornFraction, tearMask, snapOffCalls,
                   drags, steps, viewport, accum, controller, timeouts, clicks,
                   queued, returned, uf, united, cursor,
                   tearTimer>>

\* _updateTearSystem sets grabNode = nodeAt(grabUV) and calls update(dt), in
\* which the constraints of the set broken exceed their toughness
TearUpdate(grabUV, broken) ==
    /\ broken \subseteq breakable(tearSystem)
    /\ brokenCount(tearSystem) + Cardinality(broken) <= MaxBroken
    /\ tearSystem' = tearUpdate([tearSystem EXCEPT !.grabNode = nodeAt(grabUV)], broken)
    /\ probe' = [op |-> "update", arg |-> grabUV, result |-> Null]
    /\ last' = "update"
    /\ fired' = << >>
    /\ UNCHANGED <<ctrl, timers, zones, tornFraction, tearMask, snapOffCalls,
                   drags, steps, viewport, accum, controller, timeouts, clicks,
                   queued, returned, uf, united, cursor,
                   tearTimer>>

GetDetachedUVs ==
    /\ tearSystem' = getDetachedUVs(tearSystem).ts
    /\ probe' = [op |-> "getDetachedUVs", arg |-> Null,
                 result |-> getDetachedUVs(tearSystem).uvs]
    /\ last' = "getDetachedUVs"
    /\ fired' = << >>
    /\ UNCHANGED <<ctrl, timers, zones, tornFraction, tearMask, snapOffCalls,
                   drags, steps, viewport, accum, controller, timeouts, clicks,
                   queued, returned, uf, united, cursor,
                   tearTimer>>

TearReset ==
    /\ tearSystem' = tearReset(tearSystem)
    /\ probe' = [op |-> "reset", arg |-> Null, result |-> Null]
    /\ last' = "tearReset"
    /\ fired' = << >>
    /\ UNCHANGED <<ctrl, timers, zones, tornFraction, tearMask, snapOffCalls,
                   drags, steps, viewport, accum, controller, timeouts, clicks,
                   queued, returned, uf, united, cursor,
                   tearTimer>>

NextTear ==
    \/ \E uv \in TearPoints, radius \in TearRadii : ReleaseRegion(uv, radius)
    \/ \E c1, c2 \in breakable(tearSystem) : TearUpdate(UV(0, 0), {c1, c2})
    \/ GetDetachedUVs
    \/ TearReset

SpecTear == Init /\ [][NextTear]_vars

\* the sticker.js controller driven by pointer events, its timeouts, the fixed
\* step and the per-frame flush.  Clicks: the simulation's edge click, a second
\* point of the same notch cell, a point on the top edge, the centre, and the
\* first pixel column that is not near the left edge
StickerClicks ==
    { [clientX |-> 20,  clientY |-> 540], [clientX |-> 60,  clientY |-> 560],
      [clientX |-> 960, clientY |-> 10],  [clientX |-> 960, clientY |-> 540],
      [clientX |-> EDGE_MARGIN_PX, clientY |-> 540] }

\* pointer moves: inside the dead zone of a grab at the left edge, and far
\* enough from it to tear
StickerMoves ==
    { [clientX |-> 40, clientY |-> 540], [clientX |-> 400, clientY |-> 540] }

\* values of Math.random() during one fixed step, in call order: three for a
\* pop, one for the deposition test, two for a deposit
StickerRandoms ==
    { << 0, 0, 0, 0, 0, 0 >>,
      << UNIT \div 2, UNIT \div 2, UNIT \div 2,
         (12 * UNIT) \div 100 - 1, UNIT \div 2, UNIT \div 2 >>,
      << UNIT \div 2, UNIT \div 2, UNIT \div 2,
         (12 * UNIT) \div 100, UNIT \div 2, UNIT \div 2 >>,
      << UNIT - 1, UNIT - 1, UNIT - 1, UNIT - 1, UNIT - 1, UNIT - 1 >> }

\* the entries of the sequence after that were not in the sequence before
pushed(before, after) == SubSeq(after, Len(before) + 1, Len(after))

StickerPointerDown(e) ==
    /\ clicks < MaxClicks
    /\ LET r == stickerPointerDown(controller, e)
       IN /\ controller' = r.c
          /\ timeouts' = IF r.armed
                         THEN [timeouts EXCEPT !.notch = @ + 1]
                         ELSE IF controller.state = "IDLE" /\ r.c.state = "GRABBED"
                         THEN [timeouts EXCEPT !.stale = timeouts.release]
                         ELSE timeouts
    /\ clicks' = clicks + 1
    /\ probe' = [op |-> "onPointerDown", arg |-> e, result |-> Null]
    /\ last' = "stickerPointerDown"
    /\ fired' = << >>
    /\ UNCHANGED <<ctrl, timers, zones, tornFraction, tearMask, snapOffCalls,
                   drags, steps, viewport, accum, queued, returned, tearSystem,
                   uf, united, cursor,
                   tearTimer>>

StickerPointerMove(e) ==
    /\ drags < MaxStickerMoves
    /\ controller' = stickerPointerMove(controller, e)
    /\ drags' = drags + 1
    /\ probe' = [op |-> "onPointerMove", arg |-> e, result |-> Null]
    /\ last' = "stickerPointerMove"
    /\ fired' = << >>
    /\ UNCHANGED <<ctrl, timers, zones, tornFraction, tearMask, snapOffCalls,
                   steps, viewport, accum, timeouts, clicks, queued, returned,
                   tearSystem, uf, united, cursor,
                   tearTimer>>

StickerPointerUp ==
    /\ controller.state \in {"GRABBED", "TEARING"} => timeouts.release < MaxTimeouts
    /\ LET r == stickerPointerUp(controller)
       IN /\ controller' = r.c
          /\ timeouts' = IF r.armed
                         THEN [timeouts EXCEPT !.release = @ + 1] ELSE timeouts
    /\ probe' = [op |-> "onPointerUp", arg |-> Null, result |-> Null]
    /\ last' = "stickerPointerUp"
    /\ fired' = << >>
    /\ UNCHANGED <<ctrl, timers, zones, tornFraction, tearMask, snapOffCalls,
                   drags, steps, viewport, accum, clicks, queued, returned,
                   tearSystem, uf, united, cursor,
                   tearTimer>>

\* a 200 ms timeout armed by a notching click runs
NotchTimeout ==
    /\ timeouts.notch > 0
    /\ timeouts' = [timeouts EXCEPT !.notch = @ - 1]
    /\ controller' = notchTimeout(controller)
    /\ probe' = Null
    /\ last' = "notchTimeout"
    /\ fired' = << >>
    /\ UNCHANGED <<ctrl, timers, zones, tornFraction, tearMask, snapOffCalls,
                   drags, steps, viewport, accum, clicks, queued, returned,
                   tearSystem, uf, united, cursor,
                   tearTimer>>

\* a 600 ms timeout armed by onPointerUp runs
ReleaseTimeout ==
    /\ timeouts.release > 0
    \* the timeouts have one delay and run in the order they were armed
    /\ timeouts' = [timeouts EXCEPT !.release = @ - 1, !.stale = Max2(0, @ - 1)]
    /\ controller' = releaseTimeout(controller)
    /\ probe' = Null
    /\ last' = "releaseTimeout"
    /\ fired' = << >>
    /\ UNCHANGED <<ctrl, timers, zones, tornFraction, tearMask, snapOffCalls,
                   drags, steps, viewport, accum, clicks, queued, returned,
                   tearSystem, uf, united, cursor,
                   tearTimer>>

\* one fixed step of StickerController.update (sticker.js)
StickerStep(rnd) ==
    /\ steps < MaxStickerSteps
    /\ LET r == stickerStep(controller, rnd)
       IN /\ controller' = r.c
          /\ queued' = [queued EXCEPT !.residue =
                           @ \o pushed(controller.pendingResidue, r.c.pendingResidue)]
          /\ fired' = [k \in 1..r.pops |-> Call("onPop", Null, Null)]
    /\ steps' = steps + 1
    /\ probe' = Null
    /\ last' = "stickerStep"
    /\ UNCHANGED <<ctrl, timers, zones, tornFraction, tearMask, snapOffCalls,
                   drags, viewport, accum, timeouts, clicks, returned,
                   tearSystem, uf, united, cursor,
                   tearTimer>>

\* an entry is pushed on _pendingTears from outside the controller, as the
\* simulation does; nothing in sticker.js pushes one
QueueTear ==
    /\ Len(queued.tears) < MaxQueuedTears
    /\ LET t == [u |-> UNIT \div 2, v |-> UNIT \div 2, radius |-> (4 * UNIT) \div 100]
       IN /\ controller' = [controller EXCEPT !.pendingTears = Append(@, t)]
          /\ queued' = [queued EXCEPT !.tears = Append(@, t)]
    /\ probe' = Null
    /\ last' = "queueTear"
    /\ fired' = << >>
    /\ UNCHANGED <<ctrl, timers, zones, tornFraction, tearMask, snapOffCalls,
                   drags, steps, viewport, accum, timeouts, clicks, returned,
                   tearSystem, uf, united, cursor,
                   tearTimer>>

\* controller.flush() called on its own, as the top of _updateMasks calls it
Flush ==
    /\ LET r == flush(controller)
       IN /\ controller' = r.c
          /\ returned' = [tears   |-> returned.tears \o r.result.tears,
                          residue |-> returned.residue \o r.result.residue]
          /\ probe' = [op |-> "flush", arg |-> Null, result |-> r.result]
    /\ last' = "flush"
    /\ fired' = << >>
    /\ UNCHANGED <<ctrl, timers, zones, tornFraction, tearMask, snapOffCalls,
                   drags, steps, viewport, accum, timeouts, clicks, queued,
                   tearSystem, uf, united, cursor,
                   tearTimer>>

\* the notch gate: clicks, releases and the two timeouts
NextNotch ==
    \/ \E e \in StickerClicks : StickerPointerDown(e)
    \/ StickerPointerUp
    \/ NotchTimeout
    \/ ReleaseTimeout

SpecNotch == Init /\ [][NextNotch]_vars

\* the controller after three clicks on the simulation's edge point, each of
\* the first two followed by its release
grabbedAtEdge ==
    LET e  == [clientX |-> 20, clientY |-> 540]
        n1 == stickerPointerUp(stickerPointerDown(StickerController, e).c).c
        n2 == stickerPointerUp(stickerPointerDown(n1, e).c).c
    IN stickerPointerDown(n2, e).c

\* the queues: a grabbed sticker is dragged, stepped and released while the
\* frames flush
InitFlush ==
    /\ ctrl = newController
    /\ timers = 0
    /\ zones = initViewportEdges
    /\ tornFraction = 0
    /\ tearMask = << >>
    /\ fired = << >>
    /\ last = "init"
    /\ snapOffCalls = 0
    /\ drags = 0
    /\ steps = 0
    /\ viewport = [w |-> innerWidth, h |-> innerHeight]
    /\ accum = 0
    /\ probe = Null
    /\ controller = grabbedAtEdge
    /\ timeouts = [notch |-> 0, release |-> 0, stale |-> 0]
    /\ clicks = NOTCH_THRESHOLD
    /\ queued = [tears |-> << >>, residue |-> << >>]
    /\ returned = [tears |-> << >>, residue |-> << >>]
    /\ tearSystem = TearSystem
    /\ uf = UnionFind(UFSize)
    /\ united = {}
    /\ tearTimer = 0
    /\ cursor = ""

NextFlush ==
    \/ \E e \in StickerMoves : StickerPointerMove(e)
    \/ \E rnd \in StickerRandoms : StickerStep(rnd)
    \/ QueueTear
    \/ Flush

SpecFlush == InitFlush /\ [][NextFlush]_vars

(* ---------------------- sticker.js: the frame loop --------------------- *)
\* the constants of the _tearTimer throttles, in TICKs: the detached nodes
\* are propagated when the timer exceeds 0.10, the peel front is painted when
\* it exceeds 0.09, and _updateMasks advances it by 0.016 a frame
TEAR_PROPAGATE_AFTER == Fl(TICKS_PER_SECOND \div 10)
FRONT_PAINT_AFTER == Fl((9 * TICKS_PER_SECOND) \div 100)
FRONT_PAINT_TICK == Fl((16 * TICKS_PER_SECOND) \div 1000)

\* the while loop of StickerController.prototype.update (sticker.js)
RECURSIVE stickerDrain(_, _, _, _)
stickerDrain(c, acc, rnd, pops) ==
    IF acc >= FIXED_DT
    THEN CHOOSE d \in { stickerDrain(r.c, a, rnd, pops + r.pops) :
                           r \in { stickerStep(c, rnd) },
                           a \in { Fl(acc - FIXED_DT) } } : TRUE
    ELSE [c |-> c, accum |-> acc, pops |-> pops]

\* StickerController.prototype.update(dt) (sticker.js); every fixed step of
\* the frame draws the values rnd
stickerUpdate(c, acc, dt, rnd) ==
    CHOOSE d \in { stickerDrain(c, a, rnd, 0) : a \in { Fl(acc + dt) } } : TRUE

\* StickerLayer.prototype._updateTearSystem(dt): the tear system (and, in
\* released, as it was when update(dt) was called), _tearTimer and the calls
\* made on the way to the mask painter; broken are the constraints that
\* update(dt) breaks
layerUpdateTearSystem(c, ts, timer, dt, broken) ==
    IF c.state \notin {"GRABBED", "TEARING"}
    THEN [ts |-> ts, released |-> ts, timer |-> timer, calls |-> << >>]
    ELSE LET f == stickerFrontUV(c, 100)
             g == [ts EXCEPT !.grabNode = nodeAt(c.grabUV)]
             r == IF c.peelProgress > (4 * UNIT) \div 100
                  THEN releaseRegion(g, f, (9 * UNIT) \div 100)
                  ELSE g
             u == tearUpdate(r, broken)
             t == Fl(timer + dt)
         IN IF t > TEAR_PROPAGATE_AFTER
            THEN CHOOSE res \in
                     { [ts |-> d.ts, released |-> r, timer |-> 0,
                        calls |-> << Call("getDetachedUVs", d.uvs, Null) >>] :
                          d \in { getDetachedUVs(u) } } : TRUE
            ELSE [ts |-> u, released |-> r, timer |-> t, calls |-> << >>]

\* StickerLayer.prototype._updateMasks: the flushed controller, what flush
\* returned, _tearTimer and the calls on the mask painter (the random offsets
\* of the residue painted at the front are not kept)
layerUpdateMasks(c, timer) ==
    LET r == flush(c)
        t == Fl(timer + FRONT_PAINT_TICK)
        f == stickerFrontUV(c, 100)
        spread == (5 * UNIT) \div 100 + RDiv(12 * c.peelProgress, 100)
        flushed ==
            [k \in 1..Len(r.result.tears) |->
                Call("paintTear", r.result.tears[k], Null)]
            \o [k \in 1..Len(r.result.residue) |->
                Call("paintResidue", r.result.residue[k], Null)]
    IN IF c.state \notin {"GRABBED", "TEARING"}
       THEN [c |-> r.c, result |-> r.result, timer |-> timer, calls |-> flushed]
       ELSE IF t > FRONT_PAINT_AFTER
       THEN [c |-> r.c, result |-> r.result, timer |-> 0,
             calls |-> flushed \o << Call("paintTear", f, spread) >>
                       \o IF c.peelProgress > (6 * UNIT) \div 100
                          THEN << Call("paintResidue", Null, Null) >>
                          ELSE << >>]
       ELSE [c |-> r.c, result |-> r.result, timer |-> t, calls |-> flushed]

\* the grabbed controllers the loop runs on: held where it was grabbed, and
\* dragged far enough to tear
LoopControllers ==
    { grabbedAtEdge,
      stickerPointerMove(grabbedAtEdge, [clientX |-> 400, clientY |-> 540]) }

\* steady cadences: 120, 60 and 30 frames a second, and a cadence slow enough
\* for the 50 ms cap
LoopDeltas == { FIXED_DT \div 2, FIXED_DT, 2 * FIXED_DT, Fl(TICKS_PER_SECOND \div 16) }

InitLoop ==
    /\ ctrl = newController
    /\ timers = 0
    /\ zones = initViewportEdges
    /\ tornFraction = 0
    /\ tearMask = << >>
    /\ fired = << >>
    /\ last = "init"
    /\ snapOffCalls = 0
    /\ drags = 0
    /\ steps = 0
    /\ viewport = [w |-> innerWidth, h |-> innerHeight]
    /\ accum = 0
    /\ probe = Null
    /\ controller \in LoopControllers
    /\ timeouts = [notch |-> 0, release |-> 0, stale |-> 0]
    /\ clicks = NOTCH_THRESHOLD
    /\ queued = [tears |-> << >>, residue |-> << >>]
    /\ returned = [tears |-> << >>, residue |-> << >>]
    /\ tearSystem = TearSystem
    /\ uf = UnionFind(UFSize)
    /\ united = {}
    /\ tearTimer = 0
    /\ cursor = ""

\* one animation frame of StickerLayer._loop (sticker.js) with the layer
\* enabled and the tab visible: controller.update(dt), _updateTearSystem(dt),
\* _updateMasks().  The frames of one behaviour arrive at one cadence; queued
\* and returned hold what was pending at the frame's flush and what the
\* flush returned; fired holds the frame's onPop calls and its calls on the
\* tear system's detached nodes and on the mask painter, in order.
LoopFrame(raw, rnd, broken) ==
    \E dt \in { Min2(raw, MAX_FRAME_DT) } :
    \E u \in { stickerUpdate(controller, accum, dt, rnd) } :
    \E t \in { layerUpdateTearSystem(u.c, tearSystem, tearTimer, dt, broken) } :
    \E m \in { layerUpdateMasks(u.c, t.timer) } :
       /\ dt > 0
       /\ IF probe = Null THEN TRUE ELSE probe.arg = raw
       /\ broken \subseteq breakable(t.released)
       /\ Cardinality(broken) + brokenCount(tearSystem) <= MaxLoopBroken
       /\ controller' = m.c
       /\ accum' = u.accum
       /\ tearSystem' = t.ts
       /\ tearTimer' = m.timer
       /\ queued' = [tears |-> u.c.pendingTears, residue |-> u.c.pendingResidue]
       /\ returned' = m.result
       /\ fired' = [k \in 1..u.pops |-> Call("onPop", Null, Null)]
                   \o t.calls \o m.calls
       /\ probe' = [op |-> "frame", arg |-> raw, result |-> Null]
       /\ last' = "layerFrame"
       /\ UNCHANGED <<ctrl, timers, zones, tornFraction, tearMask, snapOffCalls,
                      drags, steps, viewport, timeouts, clicks, uf, united,
                      cursor>>

\* the constraints that can break in the frame that starts now
LoopBreaks(raw, rnd) ==
    UNION { { b \in SUBSET breakable(r) :
                 Cardinality(b) + brokenCount(tearSystem) <= MaxLoopBroken } :
            r \in { layerUpdateTearSystem(u.c, tearSystem, tearTimer,
                                          Min2(raw, MAX_FRAME_DT), {}).released :
                    u \in { stickerUpdate(controller, accum,
                                          Min2(raw, MAX_FRAME_DT), rnd) } } }

NextLoop ==
    \E raw \in LoopDeltas :
        /\ IF probe = Null THEN TRUE ELSE probe.arg = raw
        /\ \E rnd \in StickerRandoms :
              \E broken \in LoopBreaks(raw, rnd) : LoopFrame(raw, rnd, broken)

\* the frame loop on a grabbed sticker, no input between the frames
SpecLoop == InitLoop /\ [][NextLoop]_vars

\* the frames keep arriving: requestAnimationFrame runs the loop again and
\* again, and a frame is always possible
SpecLoopFair == SpecLoop /\ WF_vars(NextLoop)

(* -------------------------------- claims ------------------------------- *)
\* the onSnapOff calls among the callbacks the last operation fired
snapOffFired(f) == { i \in 1..Len(f) : f[i].cb = "onSnapOff" }

\* C1: a release while PEELING at progress >= SNAP_THRESHOLD enters SNAP_OFF
\* and calls onSnapOff exactly once, inside that release, with the peel front
\* and the grab normal; below the threshold it enters SNAP_BACK with target 0
\* and calls nothing; and onSnapOff is called exactly as often as the state
\* goes from PEELING to SNAP_OFF, whatever the operation.
C1_ReleaseSnapsOffOnce ==
    [][ /\ (last' = "pointerUp" /\ ctrl.state = "PEELING"
                /\ ctrl.peelProgress >= SNAP_THRESHOLD) =>
              /\ ctrl'.state = "SNAP_OFF"
              /\ Cardinality(snapOffFired(fired')) = 1
              /\ fired'[1] = Call("onSnapOff", peelFrontUV(ctrl), ctrl.grabNormal)
        /\ (last' = "pointerUp" /\ ctrl.state = "PEELING"
                /\ ctrl.peelProgress < SNAP_THRESHOLD) =>
              /\ ctrl'.state = "SNAP_BACK"
              /\ ctrl'.peelTarget = 0
              /\ snapOffFired(fired') = {}
        /\ (ctrl.state = "PEELING" /\ ctrl'.state = "SNAP_OFF") <=>
              snapOffCalls' = snapOffCalls + 1
        /\ snapOffCalls' - snapOffCalls = Cardinality(snapOffFired(fired'))
      ]_vars

\* a second release above the threshold has just called onSnapOff
C1_Witness ==
    /\ last = "pointerUp"
    /\ ctrl.state = "SNAP_OFF"
    /\ snapOffFired(fired) = {1}
    /\ snapOffCalls = 2

\* the state changes of the controller's state machine
Transitions ==
    { <<"IDLE", "HOVER">>, <<"HOVER", "IDLE">>, <<"HOVER", "PEELING">>,
      <<"PEELING", "SNAP_BACK">>, <<"PEELING", "SNAP_OFF">>,
      <<"SNAP_BACK", "IDLE">>, <<"SNAP_OFF", "IDLE">> }

\* C2: every change of the controller state is one of IDLE->HOVER,
\* HOVER->IDLE, HOVER->PEELING, PEELING->SNAP_BACK, PEELING->SNAP_OFF,
\* SNAP_BACK->IDLE, SNAP_OFF->IDLE, or is made by reset() and ends in IDLE.
C2_OnlyListedTransitions ==
    [][ ctrl'.state # ctrl.state =>
            \/ <<ctrl.state, ctrl'.state>> \in Transitions
            \/ (last' = "reset" /\ ctrl'.state = "IDLE")
      ]_vars

\* a snap-back has just settled to IDLE in a session that already tore once
C2_Witness ==
    /\ ctrl.state = "IDLE"
    /\ last = "step"
    /\ steps > 0
    /\ snapOffCalls > 0

\* what setHover can be called with: no zone, or a waypoint of a tracked zone
HoverArgs ==
    { Null } \cup { [point |-> zones[i].path[1], normal |-> zones[i].normal] :
                      i \in 1..Len(zones) }

\* C3: a call that is invalid in the current state (setHover while PEELING,
\* SNAP_BACK or SNAP_OFF, pointer-down outside HOVER, a drag update outside
\* PEELING, a release outside PEELING) leaves every field of the controller
\* as it was and fires no callback.
C3_InvalidCallsAreNoOps ==
    [][ /\ ctrl.state \in {"PEELING", "SNAP_BACK", "SNAP_OFF"} =>
              \A z \in HoverArgs :
                  setHover(ctrl, z) = ctrl /\ ~hoverChangeFires(ctrl, z)
        /\ ctrl.state # "PEELING" =>
              \A uv \in DragCursors : onPointerMove(ctrl, uv) = ctrl
        /\ (last' = "pointerMove" /\ ctrl.state \in {"SNAP_BACK", "SNAP_OFF"}) =>
              (ctrl' = ctrl /\ fired' = << >>)
        /\ (last' = "pointerDown" /\ ctrl.state # "HOVER") =>
              (ctrl' = ctrl /\ fired' = << >>)
        /\ (last' = "pointerUp" /\ ctrl.state # "PEELING") =>
              /\ ctrl' = ctrl
              /\ fired' = << >>
              /\ UNCHANGED <<timers, zones, tornFraction, tearMask>>
      ]_vars

\* a pointer-down has just been ignored during SNAP_BACK
C3_Witness ==
    /\ last = "pointerDown"
    /\ ctrl.state = "SNAP_BACK"
    /\ ctrl.peelProgress > 0

\* C4: peelProgress is within [0,1] in every reachable state.
C4_ProgressInUnitInterval ==
    ctrl.peelProgress >= 0 /\ ctrl.peelProgress <= UNIT

\* a step has just clamped the progress of a large drag at 1
C4_Witness ==
    /\ last = "step"
    /\ ctrl.state = "PEELING"
    /\ ctrl.peelProgress = UNIT
    /\ ctrl.peelVelocity > 0

\* C5: from any SNAP_BACK state with target 0, fixed steps alone reach IDLE
\* within 300 steps, and on arrival progress and velocity are 0.
C5_SnapBackSettles ==
    /\ ctrl.state = "SNAP_BACK" => steps < 300
    /\ (last = "step" /\ ctrl.state = "IDLE" /\ steps > 0) =>
           (ctrl.peelProgress = 0 /\ ctrl.peelVelocity = 0)

\* a snap-back from progress 1 has just settled after more than ten steps
C5_Witness ==
    /\ last = "step"
    /\ ctrl.state = "IDLE"
    /\ steps > 10
    /\ ctrl.peelProgress = 0

\* C6: while the state is SNAP_OFF no pointer event, hover update or physics
\* step changes it; it is left only when a timeout runs or on reset(), and
\* then for IDLE.
C6_SnapOffIgnoresInput ==
    [][ ctrl.state = "SNAP_OFF" =>
            /\ last' \in {"pointerMove", "pointerDown", "pointerUp",
                          "filtered", "filteredUp", "step"} => ctrl'.state = "SNAP_OFF"
            /\ ctrl'.state # "SNAP_OFF" =>
                   (last' \in {"timer", "reset"} /\ ctrl'.state = "IDLE")
            /\ \A z \in HoverArgs : setHover(ctrl, z).state = "SNAP_OFF"
      ]_vars

\* a pointer-down on a grab zone has just been ignored during SNAP_OFF
C6_Witness ==
    /\ last = "pointerDown"
    /\ ctrl.state = "SNAP_OFF"
    /\ ctrl.hoverZone # Null

\* C7: after a release that enters SNAP_OFF the controller comes back to
\* IDLE, with progress and velocity 0, once the 350 ms timeout has run.
C7_SnapOffReturnsToIdle ==
    (ctrl.state = "SNAP_OFF") ~>
        (ctrl.state = "IDLE" /\ ctrl.peelProgress = 0 /\ ctrl.peelVelocity = 0)

\* the timeout of the only tear so far has just returned the controller to IDLE
C7_Witness ==
    /\ last = "timer"
    /\ ctrl.state = "IDLE"
    /\ snapOffCalls = 1
    /\ timers = 0
    /\ Len(zones) = 5

C9_TearRegistersOneZone ==
    [][ /\ (last' = "pointerUp" /\ snapsOff(ctrl)) =>
              /\ snapOffFired(fired') = {1}
              /\ Len(zones') = Len(zones) + 1
              /\ SubSeq(zones', 1, Len(zones)) = zones
              /\ zones'[Len(zones')].path = buildPath(peelFrontUV(ctrl))
              /\ zones'[Len(zones')].normal = ctrl.grabNormal
              /\ \A i \in 1..Len(zones'[Len(zones')].path) :
                     nearest(zones', zones'[Len(zones')].path[i],
                             viewport.w, viewport.h) # Null
        /\ Len(zones') > Len(zones) => (last' = "pointerUp" /\ snapsOff(ctrl))
      ]_vars

\* the second tear of a session has just added a sixth zone
C9_Witness ==
    /\ last = "pointerUp"
    /\ ctrl.state = "SNAP_OFF"
    /\ Len(zones) = 6
    /\ Len(zones[6].path) > 2

\* width and height of the bounding box of the polygon a release would tear
tearBox(c) ==
    LET polygon == tearPolygon(buildPath(peelFrontUV(c)))
        xs == [i \in 1..Len(polygon) |-> polygon[i].x]
        ys == [i \in 1..Len(polygon) |-> polygon[i].y]
    IN [w |-> seqMax(xs, 1, xs[1]) - seqMin(xs, 1, xs[1]),
        h |-> seqMax(ys, 1, ys[1]) - seqMin(ys, 1, ys[1])]

C11_TornFractionMonotone ==
    /\ [](tornFraction >= 0 /\ tornFraction <= FRACTION_ONE)
    /\ [][
          /\ (last' = "pointerUp" /\ snapsOff(ctrl)) =>
                /\ tornFraction' = Min2(FRACTION_ONE,
                                        tornFraction + tearBox(ctrl).w * tearBox(ctrl).h)
                /\ tornFraction' >= tornFraction
          /\ tornFraction' < tornFraction => last' = "reset"
          /\ tornFraction' # tornFraction =>
                \/ last' = "reset"
                \/ (last' = "pointerUp" /\ snapsOff(ctrl))
        ]_vars

\* a third tear has just been held at 1 by the clamp
C11_Witness ==
    /\ last = "pointerUp"
    /\ snapOffFired(fired) = {1}
    /\ snapOffCalls = MaxTears + 1
    /\ tornFraction = FRACTION_ONE
    /\ tearBox(ctrl).w * tearBox(ctrl).h > 0

\* the onCleared calls among the callbacks the last operation fired
clearedFired(f) == { i \in 1..Len(f) : f[i].cb = "onCleared" }

\* C12: onCleared fires once, on the completed tear that first brings the
\* torn fraction to CLEARED_THRESHOLD or above; it does not fire on a later
\* tear while the fraction stays at or above the threshold, and never while
\* the fraction is below it.
C12_ClearedFiresOnce ==
    [][ /\ (tornFraction < CLEARED_THRESHOLD /\ tornFraction' >= CLEARED_THRESHOLD)
              => Cardinality(clearedFired(fired')) = 1
        /\ ~(tornFraction < CLEARED_THRESHOLD /\ tornFraction' >= CLEARED_THRESHOLD)
              => clearedFired(fired') = {}
      ]_vars

\* C13: a gesture released below SNAP_THRESHOLD changes nothing outside the
\* controller: no operation other than a release at or above the threshold
\* and reset() (hover, pointer-down, drag, the release into SNAP_BACK, the
\* fixed steps back to IDLE, a timeout) changes the torn fraction, the zone
\* list or the tear mask, calls onSnapOff or arms a timeout.
C13_SnapBackChangesNothing ==
    [][ /\ (last' = "pointerUp" /\ ctrl.state = "PEELING"
                /\ ctrl.peelProgress < SNAP_THRESHOLD) => ctrl'.state = "SNAP_BACK"
        /\ (/\ last' # "reset"
            /\ ~(last' = "pointerUp" /\ ctrl.state = "PEELING"
                    /\ ctrl.peelProgress >= SNAP_THRESHOLD)) =>
              /\ UNCHANGED <<tornFraction, zones, tearMask, snapOffCalls>>
              /\ snapOffFired(fired') = {}
              /\ timers' <= timers
      ]_vars

\* a gesture released below the threshold has just settled back to IDLE in
\* a session that has a crack boundary and a torn fraction to keep
C13_Witness ==
    /\ last = "step"
    /\ ctrl.state = "IDLE"
    /\ steps > 0
    /\ Len(zones) = 5
    /\ tornFraction > 0
    /\ Len(tearMask) = 1

C15_ResizeKeepsCrackZones ==
    [][ last' = "resize" =>
            /\ viewport' # viewport
            /\ Len(zones') = Len(zones)
            /\ \A i \in 5..Len(zones) : zones'[i] = zones[i]
            /\ SubSeq(zones', 1, 4) = initViewportEdges
            /\ UNCHANGED <<tornFraction, tearMask, ctrl>>
      ]_vars

\* the window has just been resized with two crack boundaries tracked
C15_Witness ==
    /\ last = "resize"
    /\ Len(zones) = 6
    /\ viewport.w # innerWidth
    /\ tornFraction > 0

\* C16: nearest(cursorUV, width, height) returns null exactly when every
\* waypoint of every zone is farther than GRAB_SNAP_PX pixels from the
\* cursor; otherwise it returns a waypoint of least pixel distance with its
\* zone, that zone's normal and that distance, 0 when the cursor is on a
\* waypoint, and of the zones holding a waypoint at that distance the one
\* registered first.
C16_NearestIsNearest ==
    probe # Null /\ probe.op = "nearest" =>
        LET c     == probe.arg
            r     == probe.result
            all   == zonePoints(zones)
            pt(k) == zones[k[1]].path[k[2]]
            D(k)  == pxDist2(c, pt(k), viewport.w, viewport.h)
            snap2 == (GRAB_SNAP_PX * PXUNIT) * (GRAB_SNAP_PX * PXUNIT)
        IN /\ (r = Null) <=> (\A k \in all : D(k) > snap2)
           /\ r # Null =>
                 /\ r.zone \in 1..Len(zones)
                 /\ r.normal = zones[r.zone].normal
                 /\ \E j \in 1..Len(zones[r.zone].path) :
                        pt(<<r.zone, j>>) = r.point /\ D(<<r.zone, j>>) = r.dist2
                 /\ r.dist2 <= snap2
                 /\ \A k \in all : D(k) >= r.dist2
                 /\ \A k \in all : D(k) = r.dist2 => k[1] >= r.zone
           /\ (\E k \in all : pt(k) = c) => (r # Null /\ r.dist2 = 0)

\* a query from exactly GRAB_SNAP_PX pixels away has found the waypoint
C16_Witness ==
    /\ probe # Null
    /\ probe.op = "nearest"
    /\ probe.result # Null
    /\ probe.result.dist2 = (GRAB_SNAP_PX * PXUNIT) * (GRAB_SNAP_PX * PXUNIT)

\* the onHoverChange calls among the callbacks the last operation fired
hoverChangeFired(f) == { i \in 1..Len(f) : f[i].cb = "onHoverChange" }

\* C17: onHoverChange fires exactly when setHover changes the state: once
\* with the zone on IDLE->HOVER, once with null on HOVER->IDLE, and not on a
\* call that leaves the state as it is (null while IDLE, a zone while
\* already HOVER, any call outside IDLE and HOVER); nothing else fires it.
C17_HoverChangeOnTransitions ==
    [][ /\ (last' = "pointerMove" /\ ctrl.state = "IDLE" /\ ctrl'.state = "HOVER") =>
              /\ ctrl'.hoverZone # Null
              /\ fired' = << Call("onHoverChange", ctrl'.hoverZone, Null) >>
        /\ (last' = "pointerMove" /\ ctrl.state = "HOVER" /\ ctrl'.state = "IDLE") =>
              fired' = << Call("onHoverChange", Null, Null) >>
        /\ ctrl'.state = ctrl.state => hoverChangeFired(fired') = {}
        /\ last' # "pointerMove" => hoverChangeFired(fired') = {}
        /\ \A z \in HoverArgs :
              hoverChangeFires(ctrl, z) <=> setHover(ctrl, z).state # ctrl.state
      ]_vars

\* the pointer has just moved from one grab zone onto a crack boundary away
\* from the left edge, the state staying HOVER, and nothing was fired
C17_Witness ==
    /\ last = "pointerMove"
    /\ ctrl.state = "HOVER"
    /\ fired = << >>
    /\ ctrl.hoverZone # Null
    /\ ctrl.hoverZone.point.x > 0

\* C18: the corners a snap-off appends to the crack waypoints run from the
\* corner nearest the crack's terminal waypoint to the corner nearest its
\* origin in the rotational direction that passes fewer corners, so the walk
\* takes at most 2 corner steps.
C18_CornerWalkShortest ==
    [][ (last' = "pointerUp" /\ snapsOff(ctrl)) =>
            LET primary     == buildPath(peelFrontUV(ctrl))
                polygon     == tearMask'[Len(tearMask')]
                lastCorner  == nearestCornerIdx(primary[Len(primary)])
                firstCorner == nearestCornerIdx(primary[1])
                forward     == (firstCorner - lastCorner) % 4
                backward    == (lastCorner - firstCorner) % 4
                walked      == Len(polygon) - Len(primary) - 1
            IN /\ Len(tearMask') = Len(tearMask) + 1
               /\ SubSeq(polygon, 1, Len(primary)) = primary
               /\ polygon[Len(polygon)] = corners[firstCorner]
               /\ walked > 0 => polygon[Len(primary) + 1] = corners[lastCorner]
               /\ walked = Min2(forward, backward)
               /\ walked <= 2
      ]_vars

\* C19: fillPolygon is additive and idempotent: a texel once removed stays
\* removed under every further fill (only reset() makes it intact again),
\* and filling the same polygon a second time leaves the mask as the first
\* fill left it; this whether or not the renderer clears on render.
C19_FillAdditiveIdempotent ==
    [][ \A autoClear \in BOOLEAN :
          /\ last' # "maskReset" =>
                removed(tearMask, autoClear) \subseteq removed(tearMask', autoClear)
          /\ last' = "fillPolygon" =>
                /\ covered(probe'.arg) \subseteq removed(tearMask', autoClear)
                    \/ Len(probe'.arg) < 3
                /\ removed(fillPolygon(tearMask', probe'.arg), autoClear)
                      = removed(tearMask', autoClear)
          /\ last' = "maskReset" => removed(tearMask', autoClear) = {}
      ]_vars

\* the same polygon has just been filled a second time, over a mask that
\* has torn and intact texels
C19_Witness ==
    /\ last = "fillPolygon"
    /\ Len(tearMask) >= 3
    /\ tearMask[3] = tearMask[2]
    /\ tearMask[1] # tearMask[2]
    /\ removed(tearMask, FALSE) # {}
    /\ removed(tearMask, FALSE) # MaskCells
    /\ ~(covered(tearMask[1]) \subseteq covered(tearMask[2]))

\* C20: the fixed-timestep update does not depend on how the elapsed time is
\* split into frames: with no input in between, update(a) followed by
\* update(b) leaves the state, progress, velocity, target and accumulator of
\* the controller exactly as update(a + b) does, and runs as many fixed
\* steps, for all frame deltas a, b with a + b within the frame cap.
C20_FrameRateIndependent ==
    \A a, b \in FrameDeltas :
        Fl(a + b) <= MAX_FRAME_DT =>
            LET first  == update(ctrl, accum, a)
                second == update(first.ctrl, first.accum, b)
                whole  == update(ctrl, accum, Fl(a + b))
            IN /\ second.ctrl = whole.ctrl
               /\ second.accum = whole.accum
               /\ first.substeps + second.substeps = whole.substeps

\* no sum or difference of update(dt) from accumulator acc is rounded
RECURSIVE drainIsExact(_)
drainIsExact(acc) ==
    IF acc >= FIXED_DT
    THEN Fl(acc - FIXED_DT) = acc - FIXED_DT /\ drainIsExact(acc - FIXED_DT)
    ELSE TRUE

updateIsExact(acc, dt) == Fl(acc + dt) = acc + dt /\ drainIsExact(acc + dt)

\* C20, amended: the fixed-timestep update does not depend on how the
\* elapsed time is split into frames, up to the rounding of the accumulator:
\* with no input in between, update(a) followed by update(b) leaves the
\* controller and the accumulator exactly as update(a + b) does whenever no
\* sum or difference of the frame times is rounded; when one is rounded the
\* two runs differ by at most one fixed step, and a controller that ran as
\* many fixed steps is the same.
C20_FrameRateIndependentUpToRounding ==
    \A a, b \in FrameDeltas :
        Fl(a + b) <= MAX_FRAME_DT =>
            LET first  == update(ctrl, accum, a)
                second == update(first.ctrl, first.accum, b)
                whole  == update(ctrl, accum, Fl(a + b))
                split  == first.substeps + second.substeps
            IN /\ Abs(split - whole.substeps) <= 1
               /\ split = whole.substeps => second.ctrl = whole.ctrl
               /\ ( /\ Fl(a + b) = a + b
                    /\ updateIsExact(accum, a)
                    /\ updateIsExact(first.accum, b)
                    /\ updateIsExact(accum, a + b) )
                  => /\ split = whole.substeps
                     /\ second.accum = whole.accum

\* a frame has run fixed steps of a peel, and from here two frames run one
\* fixed step more or less than the single frame of their summed time
C20_Witness ==
    /\ last = "frame"
    /\ probe.result > 0
    /\ ctrl.state = "PEELING"
    /\ ctrl.peelProgress > 0
    /\ \E a, b \in FrameDeltas :
           /\ Fl(a + b) <= MAX_FRAME_DT
           /\ a > 0
           /\ b > 0
           /\ LET first  == update(ctrl, accum, a)
                  second == update(first.ctrl, first.accum, b)
                  whole  == update(ctrl, accum, Fl(a + b))
              IN first.substeps + second.substeps # whole.substeps

\* C21: for every origin in the viewport, buildPath returns at least two
\* waypoints, the first is the origin exactly, the last lies within 0.05 of a
\* viewport boundary, and every waypoint has both coordinates within
\* [-0.05, 1.05].
C21_PathFromOriginToEdge ==
    (probe # Null /\ probe.op = "crack") =>
        LET path   == probe.result.primary
            tip    == path[Len(path)]
            margin == (5 * UNIT) \div 100
        IN /\ Len(path) >= 2
           /\ path[1] = probe.arg
           /\ \/ tip.x <= margin
              \/ tip.x >= UNIT - margin
              \/ tip.y <= margin
              \/ tip.y >= UNIT - margin
           /\ \A k \in 1..Len(path) :
                  /\ path[k].x >= -margin
                  /\ path[k].x <= UNIT + margin
                  /\ path[k].y >= -margin
                  /\ path[k].y <= UNIT + margin

\* a path of more than thirty waypoints has been built from the centre of the
\* viewport
C21_Witness ==
    /\ last = "crack"
    /\ probe.arg = UV(UNIT \div 2, UNIT \div 2)
    /\ Len(probe.result.primary) > 30

C25_BranchesStartOnPath ==
    (probe # Null /\ probe.op = "crack") =>
        LET primary  == probe.result.primary
            branches == probe.result.branches
        IN /\ Len(branches) \in {1, 2}
           /\ \A b \in 1..Len(branches) :
                  /\ Min2(startIdx(primary, b - 1), Len(primary) - 2)
                         \in 0..(Len(primary) - 2)
                  /\ \E k \in 1..(Len(primary) - 1) : branches[b][1] = primary[k]
                  /\ Len(branches[b]) >= 2
                  /\ \A i \in 2..Len(branches[b]) :
                         /\ branches[b][i].x \in 0..UNIT
                         /\ branches[b][i].y \in 0..UNIT

\* two branches were built on a primary path of two distinct waypoints, the
\* second of them from a start index that had to be brought back from the
\* terminal waypoint
C25_Witness ==
    /\ last = "crack"
    /\ Len(probe.result.primary) = 2
    /\ probe.result.primary[1] # probe.result.primary[2]
    /\ Len(probe.result.branches) = 2
    /\ startIdx(probe.result.primary, 1) = 1
    /\ probe.result.branches[2][1] = probe.result.primary[1]

\* C23: a drag-target update while PEELING sets the target to
\* min(1, 2.2 x distance(cursorUV, grabUV)), which is within [0, 1]; it replaces
\* the peel direction by the normalized displacement when the displacement
\* exceeds the 0.03 dead-zone and leaves the direction unchanged when the
\* displacement is 0.03 or less, zero included.
C23_DragTargetAndDeadZone ==
    [][ (last' = "drag" /\ ctrl.state = "PEELING") =>
            LET dx    == probe'.arg.x - ctrl.grabUV.x
                dy    == probe'.arg.y - ctrl.grabUV.y
                dist2 == dx * dx + dy * dy
                dist  == ISqrt(dist2)
            IN /\ ctrl'.peelTarget = Min2(UNIT, RDiv(22 * dist, 10))
               /\ ctrl'.peelTarget \in 0..UNIT
               /\ dist2 > DEAD_ZONE * DEAD_ZONE =>
                      ctrl'.peelDir = UV(RDiv(dx * UNIT, dist), RDiv(dy * UNIT, dist))
               /\ dist2 <= DEAD_ZONE * DEAD_ZONE => ctrl'.peelDir = ctrl.peelDir
               /\ ctrl' = [ctrl EXCEPT !.peelTarget = ctrl'.peelTarget,
                                       !.peelDir = ctrl'.peelDir]
      ]_vars

\* a drag swung the direction away from the zone normal, and the pointer then
\* came back to exactly 0.03 from the grab point: the target is 0.066 and the
\* swung direction is kept
C23_Witness ==
    /\ last = "drag"
    /\ ctrl.state = "PEELING"
    /\ probe.arg = UV(ctrl.grabUV.x + DEAD_ZONE, ctrl.grabUV.y)
    /\ ctrl.peelTarget = (66 * UNIT) \div 1000
    /\ ctrl.peelDir # ctrl.grabNormal
    /\ ctrl.peelDir # UV(UNIT, 0)

\* C24: a pointer-down in HOVER moves the controller to PEELING with
\* progress, velocity and target 0, whatever an earlier gesture left in them,
\* and keeps the grab point, grab normal and direction of the zone most
\* recently passed to setHover.
C24_BeginPeelResets ==
    /\ [](ctrl.state = "HOVER" =>
             /\ ctrl.hoverZone # Null
             /\ ctrl.grabUV = ctrl.hoverZone.point
             /\ ctrl.grabNormal = ctrl.hoverZone.normal
             /\ ctrl.peelDir = ctrl.hoverZone.normal)
    /\ [][ (last' = "pointerDown" /\ ctrl.state = "HOVER") =>
               /\ ctrl'.state = "PEELING"
               /\ ctrl'.peelProgress = 0
               /\ ctrl'.peelVelocity = 0
               /\ ctrl'.peelTarget = 0
               /\ ctrl'.grabUV = ctrl.hoverZone.point
               /\ ctrl'.grabNormal = ctrl.hoverZone.normal
               /\ ctrl'.peelDir = ctrl.hoverZone.normal
               /\ ctrl'.hoverZone = ctrl.hoverZone
       ]_vars

\* a second peel has begun on the crack boundary of the first tear, whose
\* drag target was still in place when the pointer went down
C24_Witness ==
    /\ last = "pointerDown"
    /\ ctrl.state = "PEELING"
    /\ snapOffCalls = 1
    /\ Len(zones) = 5
    /\ ctrl.grabUV = zones[5].path[1]
    /\ ctrl.peelTarget = 0

\* a UV point inside the viewport
inViewport(uv) == uv.x \in 0..UNIT /\ uv.y \in 0..UNIT

\* C26: the peel front stays inside the viewport around a snap-off: the peel
\* front handed to onSnapOff by a release and the value of peelFrontUV() once
\* the controller is back in IDLE both have x and y within [0, 1], for every
\* grab zone and every drag.
C26_PeelFrontInViewport ==
    /\ [](ctrl.state = "IDLE" => inViewport(peelFrontUV(ctrl)))
    /\ [][ \A i \in snapOffFired(fired') : inViewport(fired'[i].a) ]_vars

\* the elements linked to x by a chain of united pairs, grown from the set S
RECURSIVE chained(_)
chained(S) ==
    LET T == S \cup { z \in 0..(UFSize - 1) :
                        \E p \in united : z \in p /\ p \cap S # {} }
    IN IF T = S THEN S ELSE chained(T)

\* following parent from x reaches a root within k links
RECURSIVE rootWithin(_, _, _)
rootWithin(u, x, k) ==
    \/ u.parent[x] = x
    \/ k > 0 /\ rootWithin(u, u.parent[x], k - 1)

\* x and y have the same root in u
sameSet(u, x, y) == find(u, x).root = find(u, y).root

\* C29: after any sequence of union calls, find(x) = find(y) exactly when x
\* and y are linked by a chain of united pairs; every find terminates (the
\* parent links lead to a root within n links), and a find, path halving
\* included, returns the root the element had and changes the set of no element
C29_UnionFindConnectivity ==
    /\ [](/\ \A x \in 0..(UFSize - 1) : rootWithin(uf, x, UFSize)
          /\ \A x, y \in 0..(UFSize - 1) :
                 sameSet(uf, x, y) <=> y \in chained({x}))
    /\ [][ last' = "find" =>
             /\ probe'.result = find(uf', probe'.arg).root
             /\ \A x, y \in 0..(UFSize - 1) :
                    sameSet(uf', x, y) <=> sameSet(uf, x, y) ]_vars

\* a find has run on a tree of rank 2 built by three unions, every element
\* now pointing at the root, with two elements joined only through a chain
C29_Witness ==
    /\ last = "find"
    /\ \E r \in 0..(UFSize - 1) :
          /\ uf.rank[r] = 2
          /\ \A x \in 0..3 : uf.parent[x] = r
    /\ \E x, y \in 0..3 : x # y /\ {x, y} \notin united /\ sameSet(uf, x, y)

\* the nodes joined to a node of S by unbroken constraints of ts
RECURSIVE joined(_, _)
joined(ts, S) ==
    LET T == S \cup { n \in 0..(nodeCount - 1) :
                        \E c \in 1..conCount :
                           /\ ts.conBroken[c] = 0
                           /\ \/ constraints[c].a = n /\ constraints[c].b \in S
                              \/ constraints[c].b = n /\ constraints[c].a \in S }
    IN IF T = S THEN S ELSE joined(ts, T)

\* the nodes whose component holds no pinned node
detached(ts) ==
    { n \in 0..(nodeCount - 1) : \A m \in joined(ts, {n}) : ts.pinned[m] = 0 }

\* C30: getDetachedUVs returns, once each, exactly the nodes whose connected
\* component under the unbroken constraints contains no pinned node: a free
\* node with all its constraints broken is returned, a node joined to a
\* pinned node is not, and nothing is returned while every node is pinned
C30_DetachedNodes ==
    [][ last' = "getDetachedUVs" =>
          LET uvs == probe'.result
          IN /\ { uvs[k] : k \in 1..Len(uvs) } = detached(tearSystem)
             /\ \A j, k \in 1..Len(uvs) : j # k => uvs[j] # uvs[k]
             /\ (\A n \in 0..(nodeCount - 1) : tearSystem.pinned[n] = 1)
                   => uvs = << >> ]_vars

\* getDetachedUVs has returned a free node cut off from the rest while
\* another free node, still joined to a pinned one, was left out
C30_Witness ==
    /\ last = "getDetachedUVs"
    /\ probe.result # << >>
    /\ \E n \in 0..(nodeCount - 1) :
          /\ tearSystem.pinned[n] = 0
          /\ n \notin { probe.result[k] : k \in 1..Len(probe.result) }
          /\ \E m \in joined(tearSystem, {n}) : tearSystem.pinned[m] = 1

\* C27: from IDLE, a pointer-down near a viewport edge counts one more click
\* for its notch cell and enters GRABBED exactly when that count has reached
\* NOTCH_THRESHOLD, setting activeNotch and the grab point to the click; with
\* a lower count it enters NOTCHING; a pointer-down that is not near an edge
\* changes neither the state nor any notch count
C27_NotchGate ==
    [][ (last' = "stickerPointerDown" /\ controller.state = "IDLE") =>
          LET e     == probe'.arg
              key   == notchKey(e)
              count == notchCount(controller', key)
          IN IF isNearEdge(e)
             THEN /\ count = notchCount(controller, key) + 1
                  /\ \A k \in (DOMAIN controller'.notchDamage) \ {key} :
                         notchCount(controller', k) = notchCount(controller, k)
                  /\ controller'.state = "GRABBED" <=> count >= NOTCH_THRESHOLD
                  /\ count >= NOTCH_THRESHOLD =>
                         /\ controller'.activeNotch = uvFromPointer(e)
                         /\ controller'.grabUV = uvFromPointer(e)
                  /\ count < NOTCH_THRESHOLD => controller'.state = "NOTCHING"
             ELSE /\ controller'.state = "IDLE"
                  /\ controller'.notchDamage = controller.notchDamage ]_vars

\* the third click on one notch cell has grabbed the sticker while another
\* cell holds a lower count
C27_Witness ==
    /\ last = "stickerPointerDown"
    /\ controller.state = "GRABBED"
    /\ isNearEdge(probe.arg)
    /\ notchCount(controller, notchKey(probe.arg)) = NOTCH_THRESHOLD
    /\ controller.activeNotch = uvFromPointer(probe.arg)
    /\ \E k \in DOMAIN controller.notchDamage :
          k # notchKey(probe.arg) /\ controller.notchDamage[k] < NOTCH_THRESHOLD

\* C28: flush returns the entries of both queues in queue order and empties
\* them, so that over any interleaving of steps, pushes and flushes the
\* entries returned so far followed by those still pending are the entries
\* queued so far, each exactly once and in order; a flush with nothing queued
\* returns two empty arrays
C28_FlushReturnsQueued ==
    /\ [](/\ returned.tears \o controller.pendingTears = queued.tears
          /\ returned.residue \o controller.pendingResidue = queued.residue)
    /\ [][ last' = "flush" =>
             /\ probe'.result = [tears   |-> controller.pendingTears,
                                 residue |-> controller.pendingResidue]
             /\ controller'.pendingTears = << >>
             /\ controller'.pendingResidue = << >> ]_vars

\* a second flush has returned residue queued after the first one, with a
\* tear and earlier residue already returned
C28_Witness ==
    /\ last = "flush"
    /\ probe.result.residue # << >>
    /\ Len(returned.residue) > Len(probe.result.residue)
    /\ returned.tears # << >>
    /\ controller.pendingResidue = << >>

\* the break force of a stuck controller after one more fixed step exceeds
\* 2.5 x STICK_FORCE_THRESH: |error| x SPRING_K + 0.8 x stuckTime, with
\* stuckTime = (stuckSteps + 1) / FIXED_HZ, multiplied by 10 x FIXED_HZ
breakForceExceeded(c) ==
    10 * FIXED_HZ * Abs(c.peelTarget - c.peelProgress) * STICKER_SPRING_K
        + 8 * (c.stuckSteps + 1) * UNIT
      > 25 * FIXED_HZ * STICK_FORCE_THRESH

\* C31: a fixed step taken in GRABBED or TEARING with isStuck set leaves the
\* progress as it is; when the break force exceeds 2.5 x STICK_FORCE_THRESH
\* the step clears isStuck, adds SLIP_IMPULSE in the direction of the error to
\* the velocity, queues a residue entry at the peel front and calls onPop
\* exactly once; below that force isStuck stays set and onPop is not called
C31_StickSlip ==
    [][ (/\ last' = "stickerStep"
         /\ controller.state \in {"GRABBED", "TEARING"}
         /\ controller.isStuck) =>
          LET error == controller.peelTarget - controller.peelProgress
              dv    == controller'.peelVelocity - controller.peelVelocity
              front == stickerFrontUV(controller, 100)
              new   == pushed(controller.pendingResidue, controller'.pendingResidue)
          IN /\ controller'.peelProgress = controller.peelProgress
             /\ IF breakForceExceeded(controller)
                THEN /\ ~controller'.isStuck
                     /\ Abs(dv) = SLIP_IMPULSE
                     /\ dv * error >= 0
                     /\ new # << >>
                     /\ Abs(new[1].u - front.x) <= (15 * UNIT) \div 1000
                     /\ Abs(new[1].v - front.y) <= (15 * UNIT) \div 1000
                     /\ new[1].intensity = RESIDUE_POP_BOOST
                     /\ fired' = << Call("onPop", Null, Null) >>
                ELSE /\ controller'.isStuck
                     /\ fired' = << >> ]_vars

\* C32: every peel gesture ends: a pointer-up delivered to the window while
\* the controller is PEELING, whatever element it lands on, takes the
\* controller out of PEELING, to SNAP_OFF or SNAP_BACK
C32_ReleaseEndsPeel ==
    [][ (ctrl.state = "PEELING" /\ last' \in {"pointerUp", "filteredUp"})
          => ctrl'.state \in {"SNAP_OFF", "SNAP_BACK"} ]_vars

\* C33: the 350 ms timeout that takes a SNAP_OFF to IDLE is the one armed by
\* the release that entered it.  The timeouts have one delay and run in the
\* order they were armed, the one of the current SNAP_OFF last: it is the
\* one that runs only when no other is pending
C33_TimerEndsOwnSnapOff ==
    [][ (last' = "timer" /\ ctrl.state = "SNAP_OFF" /\ ctrl'.state = "IDLE")
          => timers = 1 ]_vars

\* C34: whenever the controller is in IDLE the last onHoverChange
\* notification, if one was sent, carried null: the cursor it drives does not
\* show the grab indicator, also after a peel that ended through SNAP_BACK or
\* SNAP_OFF
C34_HoverNotificationAgrees ==
    ctrl.state = "IDLE" => cursor # "grab"

\* C35: whenever the controller is in IDLE or HOVER, peelProgress and
\* peelVelocity are both 0, after any sequence of hovers, peels, drags,
\* releases, fixed steps, timeouts and resets
C35_RestStatesAtZero ==
    ctrl.state \in {"IDLE", "HOVER"} => (ctrl.peelProgress = 0 /\ ctrl.peelVelocity = 0)

\* a SNAP_BACK that took several fixed steps has settled into IDLE
C35_Witness ==
    /\ last = "step"
    /\ ctrl.state = "IDLE"
    /\ steps > 1
    /\ ctrl.peelProgress = 0
    /\ ctrl.peelVelocity = 0

\* C36: the 600 ms timeout that takes a grab back to IDLE was armed by a
\* pointer-up of that grab, never by one delivered before the grab began
C36_TimerEndsOwnGrab ==
    [][ (/\ last' = "releaseTimeout"
         /\ controller.state \in {"GRABBED", "TEARING"}
         /\ controller'.state = "IDLE") => timeouts.stale = 0 ]_vars

\* the frame reached the painting branch of _updateTearSystem
detachedPropagated == \E i \in 1..Len(fired) : fired[i].cb = "getDetachedUVs"

\* C37: while the controller stays GRABBED or TEARING and the frames keep
\* arriving at a steady cadence, the painting branch of _updateTearSystem,
\* which propagates the detached lattice nodes to the tear mask, is reached
\* again and again.
C37_DetachedPropagatedAgain == []<>detachedPropagated

\* C38: after every update(dt) the accumulator satisfies
\* 0 <= accum < FIXED_DT, the update has run floor((accum_before + dt) /
\* FIXED_DT) fixed sub-steps, never more than 4 of them since the frame delta
\* is clamped to 50 ms, and the accumulator has advanced whatever the state,
\* the sub-steps leaving a controller outside PEELING and SNAP_BACK as it was.
C38_AccumulatorDrained ==
    [][ (last' = "frame" /\ probe'.arg > 0) =>
            LET sum == Fl(accum + probe'.arg)
                n   == probe'.result
            IN /\ 0 <= accum' /\ accum' < FIXED_DT
               /\ n = sum \div FIXED_DT
               /\ n <= 4
               /\ accum' = sum - n * FIXED_DT
               /\ ctrl.state \notin {"PEELING", "SNAP_BACK"} => ctrl' = ctrl
      ]_vars

C38_Witness ==
    /\ last = "frame"
    /\ ctrl.state = "IDLE"
    /\ probe.arg = MAX_FRAME_DT
    /\ probe.result = 3
    /\ accum > 0

\* the perpendicular distances of an origin from the edges x = 0, x = 1,
\* y = 0, y = 1, and the first edge of least distance
edgeDists(o) == << o.x, UNIT - o.x, o.y, UNIT - o.y >>

nearestEdge(o) ==
    CHOOSE k \in 1..4 :
        /\ \A j \in 1..4 : edgeDists(o)[k] <= edgeDists(o)[j]
        /\ \A j \in 1..(k - 1) : edgeDists(o)[j] > edgeDists(o)[k]

\* the perpendicular projection of an origin onto its nearest edge
projection(o) ==
    << UV(0, o.y), UV(UNIT, o.y), UV(o.x, 0), UV(o.x, UNIT) >>[nearestEdge(o)]

\* the last waypoint of the primary path of the crack just generated
terminal == probe.result.primary[Len(probe.result.primary)]

\* C39: for every origin in [0,1]x[0,1] the last waypoint of buildPath lies
\* on the edge of least perpendicular distance from the origin, its
\* coordinate across that edge exactly 0 or 1, ties going to the first edge
\* in the order x=0, x=1, y=0, y=1.
C39_PathEndsOnNearestEdge ==
    last = "crack" =>
        LET k == nearestEdge(probe.arg)
        IN /\ k = 1 => terminal.x = 0
           /\ k = 2 => terminal.x = UNIT
           /\ k = 3 => terminal.y = 0
           /\ k = 4 => terminal.y = UNIT

\* a crack from the centre, equally far from the four edges, ends on x = 0
C39_Witness ==
    /\ last = "crack"
    /\ probe.arg = UV(UNIT \div 2, UNIT \div 2)
    /\ Len(probe.result.primary) > 2
    /\ terminal.x = 0

\* C40: the jitter of buildPath is tapered to zero at the target edge: the
\* terminal waypoint is not perturbed, whatever the noise, and the path ends
\* exactly at the perpendicular projection of the origin onto the nearest
\* edge.
C40_PathEndsAtProjection == last = "crack" => terminal = projection(probe.arg)

=============================================================================
